---- MODULE Spec2Model ----
(***************************************************************************)
(* A model of the cause-list engine of the eCourts scraper                 *)
(* (src/functions.py): the option resolver, the state -> district ->       *)
(* complex -> court cascade, the captcha-gated submission loops and the    *)
(* bounded retry loops.                                                    *)
(*                                                                         *)
(* Strings are sequences of ASCII code points, so that str.lower(),        *)
(* str.strip(), the `in` substring test, the ordering of strings and       *)
(* difflib's similarity ratio are computed, not assumed.                   *)
(***************************************************************************)
EXTENDS Integers, Sequences, FiniteSets, TLC

VARIABLES
    r_pc,       \* resolver harness: "call" before _resolve_name_or_code ran, "done" after
    r_opts,     \* resolver harness: the option list passed to the resolver
    r_input,    \* resolver harness: user_input (PyNone or a string)
    r_reply,    \* resolver harness: what the operator types if input() is called
    r_out,      \* resolver harness: the outcome of the call
    fn,         \* the entry point running: "download", "app", "cnr", "captcha", "selenium", "selprep"
    pc,         \* its position
    inp,        \* the free-text selectors: [state, district, complex, court]
    interactive,\* download_entire_cause_list's interactive flag
    max_retries,\* max_retries_on_popup (tries for _download_captcha_with_retries)
    lists,      \* the locals states, dists, complexes, courts: level -> option list
    prov,       \* per level, which fetch the current list came from
    anomaly,    \* per level still to be resolved, the fetch that read an empty list where the list held was not empty
    sel,        \* state_opt, dist_opt, complex_opt, court_opt (NotFound while unset)
    usedProv,   \* per level, the fetch whose list the selection was resolved against
    err,        \* the SystemExit raised by a failed resolution
    pageImg,    \* whether `soup` holds a securimage <img> (prepare_causelist_request)
    cicri,      \* the discriminator being submitted
    attempt,    \* the loop counter of the retry loop running
    ticks,      \* polls made by the wait_for_select_options call running
    saved,      \* the local `saved` of the submission loop
    allTransient,\* every response of the loop running was a network error or a banner
    results,    \* the per-discriminator outcomes (the index / what the app shows)
    capCount,   \* captcha artifacts fetched so far on the session
    textCount,  \* human captcha inputs obtained so far
    payloadText,\* the payload's cause_list_captcha_code: the human input it holds and the image read
    posts,      \* the submission POSTs made, in order
    prompts,    \* prompts issued by the resolver during the cascade
    capPaths,   \* prepare_causelist_request's captcha_paths: discriminator -> image (0: None)
    files,      \* result and index files written
    last,       \* the response of the latest submission POST of the loop running, and its branch
    heap,       \* the dict objects alive: heap[1] is the caller's payload_template
    payload,    \* the object submit_causelist_attempt's local `payload` refers to (0: none)
    steps,      \* steps the call has taken
    driver,     \* the browser driver of a Selenium call: "none", "open" or "quit"
    q_pc,       \* concurrent queries: the position of each query
    q_orig,     \* concurrent queries: each InputPatcher's _orig_input
    q_path,     \* concurrent queries: the second each query's captcha file is named after
    q_seen,     \* concurrent queries: the session whose captcha each operator was shown
    q_asked,    \* concurrent queries: the provider that answered each query's input()
    builtinsInput, \* builtins.input: 0 the original, q the provider of query q
    capFile,    \* outputs/cnr/captcha_<second>.jpg: second -> the session that wrote it (0: no file)
    clock,      \* datetime.now(), in seconds
    p_pc,       \* parser harness: "call" before the parser ran, "done" after, "idle" when unused
    p_in,       \* parser harness: the input of the call
    p_out,      \* parser harness: the output of the call
    p_i,            \* parse_cause_list_html: the position of the row loop
    section_name,   \* parse_cause_list_html: the name of the pending section
    current_cases,  \* parse_cause_list_html: the cases of the pending section
    all_sections,   \* parse_cause_list_html: the sections flushed so far
    p_fetch         \* parse_eCourts_response: what became of the request for the PDF

rvars == <<r_pc, r_opts, r_input, r_reply, r_out>>

fvars == <<fn, pc, driver, inp, interactive, max_retries, lists, prov, anomaly, sel, usedProv, err,
           pageImg, cicri, attempt, ticks, saved, allTransient, results, capCount,
           textCount, payloadText, posts, prompts, capPaths, files, last, heap, payload,
           steps>>

cvars == <<q_pc, q_orig, q_path, q_seen, q_asked, builtinsInput, capFile, clock>>

plocals == <<p_i, section_name, current_cases, all_sections, p_fetch>>

pvars == <<p_pc, p_in, p_out, plocals>>

vars == <<rvars, fvars, cvars, pvars>>

(***************************************************************************)
(* Python values                                                           *)
(***************************************************************************)

\* Python's None where a string is expected; -1 is no code point.
PyNone == <<-1>>

\* String literals used below, as code points.
S_empty == <<>>
S_sp    == <<32>>               \* " "
S_1     == <<49>>               \* "1"
S_2     == <<50>>               \* "2"
S_9     == <<57>>               \* "9"
S_a     == <<97>>               \* "a"
S_ab    == <<97, 98>>           \* "ab"
S_AB    == <<65, 66>>           \* "AB"
S_Ab    == <<65, 98>>           \* "Ab"
S_sp_ab == <<32, 97, 98>>       \* " ab"
S_AB1   == <<65, 66, 49>>       \* "AB1"
S_1AB   == <<49, 65, 66>>       \* "1AB"
S_zz    == <<122, 122>>         \* "zz"
S_q     == <<113>>              \* "q"

\* bool(x) for x a string or None: `if not user_input`.
Truthy(x) == x # PyNone /\ x # <<>>

\* str.isspace() on one ASCII character.
IsSpace(c) == c \in {9, 10, 11, 12, 13, 28, 29, 30, 31, 32}

\* str.lower() on one ASCII character.
LowerChar(c) == IF c >= 65 /\ c <= 90 THEN c + 32 ELSE c

\* str.lower()
Lower(s) == [i \in 1..Len(s) |-> LowerChar(s[i])]

RECURSIVE LStrip(_)
LStrip(s) == IF s # <<>> /\ IsSpace(Head(s)) THEN LStrip(Tail(s)) ELSE s

RECURSIVE RStrip(_)
RStrip(s) ==
    IF s # <<>> /\ IsSpace(s[Len(s)]) THEN RStrip(SubSeq(s, 1, Len(s) - 1)) ELSE s

\* str.strip()
Strip(s) == RStrip(LStrip(s))

\* str(user_input): None prints as "None".
PyStr(x) == IF x = PyNone THEN <<78, 111, 110, 101>> ELSE x

\* `sub in s` for strings.
Contains(s, sub) ==
    \E i \in 0..(Len(s) - Len(sub)) : SubSeq(s, i + 1, i + Len(sub)) = sub

\* x < y for strings: lexicographic by code point.
RECURSIVE StrLess(_, _)
StrLess(x, y) ==
    IF y = <<>> THEN FALSE
    ELSE IF x = <<>> THEN TRUE
    ELSE IF Head(x) # Head(y) THEN Head(x) < Head(y)
    ELSE StrLess(Tail(x), Tail(y))

\* int(sel) for the reply typed at the prompt: an optional sign and decimal
\* digits (surrounding blanks were stripped by the caller); anything else
\* raises ValueError, modelled as the record [ok |-> FALSE].
IsDigit(c) == c >= 48 /\ c <= 57

RECURSIVE DigitsValue(_)
DigitsValue(s) ==
    IF s = <<>> THEN 0 ELSE 10 * DigitsValue(SubSeq(s, 1, Len(s) - 1)) + (s[Len(s)] - 48)

PyInt(s) ==
    LET body == IF s # <<>> /\ Head(s) \in {43, 45} THEN Tail(s) ELSE s
        neg  == s # <<>> /\ Head(s) = 45
    IN  IF body # <<>> /\ \A i \in 1..Len(body) : IsDigit(body[i])
        THEN [ok |-> TRUE, val |-> IF neg THEN 0 - DigitsValue(body) ELSE DigitsValue(body)]
        ELSE [ok |-> FALSE, val |-> 0]

(***************************************************************************)
(* difflib.SequenceMatcher / get_close_matches (Python standard library,   *)
(* called at functions.py:794 with n=1, cutoff=0.6)                        *)
(***************************************************************************)

\* The matching blocks (i, j, k) of a[alo..ahi) and b[blo..bhi), 0-based.
Blocks(a, alo, ahi, b, blo, bhi) ==
    { t \in (alo..(ahi - 1)) \X (blo..(bhi - 1)) \X (1..(ahi - alo)) :
        /\ t[1] + t[3] <= ahi
        /\ t[2] + t[3] <= bhi
        /\ \A d \in 0..(t[3] - 1) : a[t[1] + d + 1] = b[t[2] + d + 1] }

\* find_longest_match: the longest block; of those the one starting earliest
\* in a; of those the one starting earliest in b.
FindLongestMatch(a, alo, ahi, b, blo, bhi) ==
    LET bs == Blocks(a, alo, ahi, b, blo, bhi)
    IN  IF bs = {} THEN <<alo, blo, 0>>
        ELSE CHOOSE t \in bs :
                \A u \in bs :
                    \/ t[3] > u[3]
                    \/ (t[3] = u[3] /\ t[1] < u[1])
                    \/ (t[3] = u[3] /\ t[1] = u[1] /\ t[2] <= u[2])

\* Sum of the sizes of get_matching_blocks(): the longest match, then the
\* pieces to its left and to its right, recursively.
RECURSIVE MatchedSize(_, _, _, _, _, _)
MatchedSize(a, alo, ahi, b, blo, bhi) ==
    LET m == FindLongestMatch(a, alo, ahi, b, blo, bhi)
        i == m[1]
        j == m[2]
        k == m[3]
    IN  IF k = 0 THEN 0
        ELSE k
             + (IF alo < i /\ blo < j THEN MatchedSize(a, alo, i, b, blo, j) ELSE 0)
             + (IF i + k < ahi /\ j + k < bhi
                THEN MatchedSize(a, i + k, ahi, b, j + k, bhi) ELSE 0)

\* SequenceMatcher.ratio() = 2.0 * matches / (len(a) + len(b)), 1.0 for two
\* empty strings, kept as the exact fraction num/den.
Ratio(a, b) ==
    LET total == Len(a) + Len(b)
    IN  IF total = 0 THEN [num |-> 1, den |-> 1]
        ELSE [num |-> 2 * MatchedSize(a, 0, Len(a), b, 0, Len(b)), den |-> total]

\* The similarity floor cutoff = 0.6 = CutoffNum / CutoffDen.
CutoffNum == 6
CutoffDen == 10

RatioAtLeastCutoff(r) == r.num * CutoffDen >= CutoffNum * r.den

RatioLess(r, q) == r.num * q.den < q.num * r.den

\* get_close_matches(word, possibilities, n=1, cutoff): the possibilities x
\* with ratio(x, word) >= cutoff; heapq.nlargest(1, ...) over (score, x)
\* keeps the greatest score and, among equal scores, the greatest string.
\* Returns <<>> or the one-element list <<x>>.
GetCloseMatches(word, possibilities) ==
    LET good == { x \in possibilities : RatioAtLeastCutoff(Ratio(x, word)) }
    IN  IF good = {} THEN <<>>
        ELSE << CHOOSE x \in good :
                   \A y \in good :
                       \/ RatioLess(Ratio(y, word), Ratio(x, word))
                       \/ (~RatioLess(Ratio(x, word), Ratio(y, word))
                           /\ (y = x \/ StrLess(y, x))) >>

(***************************************************************************)
(* _resolve_name_or_code (functions.py:754-799)                            *)
(***************************************************************************)

\* The resolver's None result.
NotFound == [value |-> PyNone, text |-> PyNone]

\* [o for o in seq if P(o)], in list order.
FilterSeq(seq, P(_)) == SelectSeq(seq, P)

\* The first element of seq satisfying P, or NotFound: `for o in opts: if ...: return o`.
FirstWhere(seq, P(_)) ==
    LET hits == FilterSeq(seq, P) IN IF hits = <<>> THEN NotFound ELSE hits[1]

\* Step 4 of the resolver, functions.py:792-799.
FuzzyStep(opts, s) ==
    LET texts == { opts[i].text : i \in 1..Len(opts) }
        best  == GetCloseMatches(s, texts)
        IsBest(o) == o.text = best[1]
    IN  IF best # <<>> THEN FirstWhere(opts, IsBest) ELSE NotFound

\* What the prompt branch returns on the operator's reply (functions.py:785-791):
\* int(sel) - 1 indexes the candidates; ValueError picks the first candidate.
PickedOnValueError(subs) == subs[1]

\* functions.py:767: the string the resolver matches with.
Normalised(user_input) == Strip(PyStr(user_input))

\* functions.py:765: the blank-input guard.
InputRejected(user_input) == ~Truthy(user_input)

\* The candidates of the substring step, functions.py:777.
SubstringCandidates(opts, s) ==
    LET Has(o) == Contains(Lower(o.text), Lower(s)) IN FilterSeq(opts, Has)

\* functions.py:769-771: the first option whose code equals s.
CodeMatch(opts, s) ==
    LET IsCode(o) == o.value = s IN FirstWhere(opts, IsCode)

\* LabelMatch comparing the labels as they are, without lower().
LabelMatch_CaseSensitive(opts, s) ==
    LET IsLabel(o) == o.text = s IN FirstWhere(opts, IsLabel)

\* functions.py:773-775: the first option whose label equals s ignoring case.
LabelMatch(opts, s) ==
    LET IsLabel(o) == Lower(o.text) = Lower(s) IN FirstWhere(opts, IsLabel)

\* _resolve_name_or_code(opts, user_input), with `reply` what input() returns
\* if the resolver prompts.  The result records the returned option (NotFound
\* for None), whether the operator was prompted, the candidates displayed and
\* how the option was chosen.
Resolve(opts, user_input, reply) ==
    LET s    == Normalised(user_input)
        subs == SubstringCandidates(opts, s)
        typed == Strip(reply)
        n    == PyInt(typed)
        idx  == n.val - 1
        quiet(o, how) == [opt |-> o, prompted |-> FALSE, cands |-> <<>>, how |-> how]
        asked(o, how) == [opt |-> o, prompted |-> TRUE, cands |-> subs, how |-> how]
        fz   == FuzzyStep(opts, s)
    IN  IF InputRejected(user_input) THEN quiet(NotFound, "blank")
        ELSE IF CodeMatch(opts, s) # NotFound THEN quiet(CodeMatch(opts, s), "code")
        ELSE IF LabelMatch(opts, s) # NotFound THEN quiet(LabelMatch(opts, s), "label")
        ELSE IF Len(subs) = 1 THEN quiet(subs[1], "substring")
        ELSE IF Len(subs) > 1 THEN
            IF ~n.ok THEN asked(PickedOnValueError(subs), "default")
            ELSE IF 0 <= idx /\ idx < Len(subs) THEN asked(subs[idx + 1], "picked")
            ELSE asked(fz, IF fz = NotFound THEN "none" ELSE "fuzzy")
        ELSE quiet(fz, IF fz = NotFound THEN "none" ELSE "fuzzy")

(***************************************************************************)
(* The resolver on bounded inputs                                          *)
(***************************************************************************)

\* The longest option list drawn.
MaxOpts == 2

\* Codes as _parse_select_options keeps them: stripped, non-empty, not "0".
Codes == {S_1, S_ab}

\* Labels as _parse_select_options keeps them: stripped, possibly empty.
Labels == {S_empty, S_a, S_Ab, S_AB1, S_1AB}

Options == [value : Codes, text : Labels]

RECURSIVE SeqsUpTo(_, _)
SeqsUpTo(S, n) ==
    IF n = 0 THEN {<<>>}
    ELSE LET shorter == SeqsUpTo(S, n - 1)
         IN  shorter \cup { Append(q, x) : q \in { p \in shorter : Len(p) = n - 1 }, x \in S }

OptionLists == SeqsUpTo(Options, MaxOpts)

UserInputs == {PyNone, S_empty, S_sp, S_1, S_a, S_ab, S_AB, S_sp_ab, S_zz}

Replies == {S_empty, S_1, S_2, S_9, S_q}

NoOutcome == [opt |-> NotFound, prompted |-> FALSE, cands |-> <<>>, how |-> "pending"]

(***************************************************************************)
(* The cascade of download_entire_cause_list (functions.py:845-968) and of *)
(* prepare_causelist_request (functions.py:2108-2207)                      *)
(***************************************************************************)

Levels == {"state", "district", "complex", "court"}

\* The two options a populated <select> of the modelled site holds.
OptA == [value |-> S_1, text |-> S_Ab]
OptB == [value |-> S_2, text |-> S_AB1]

\* What _parse_select_options can return for one level of one page: no
\* options (the select is absent or not populated yet) or the populated list.
PageLists == {<<>>, <<OptA, OptB>>}

\* The selectors a caller passes: a code, an ambiguous substring, no match.
CascadeInputs == {S_1, S_a, S_zz}

\* The selector vectors drawn: codes at every level, but for at most one
\* level, which gets an ambiguous substring or a text that matches nothing.
InputVectors ==
    { v \in [Levels -> CascadeInputs] :
        Cardinality({ l \in Levels : v[l] # S_1 }) <= 1 }

\* What the operator types when the resolver prompts during the cascade.
CascadeReplies == {S_empty, S_9}

\* `new or old` on lists: an empty list is falsy.
ListOr(new, old) == IF new # <<>> THEN new ELSE old

\* The levels already resolved when each page is fetched: the landing GET
\* (line 846) precedes every resolution, the state POST (line 898) follows
\* state_opt and dist_opt, the complex POST (line 943) follows complex_opt.
FetchCommitted(f) ==
    CASE f = "landing" -> {}
      [] f = "r2"      -> {"state", "district"}
      [] f = "r3"      -> {"state", "district", "complex"}
      [] OTHER         -> {}

\* The levels whose codes each request carries: none for the GET,
\* {state_field_name: state_code} for the state POST, state_code, dist_code
\* and court_complex_code for the complex POST.
FetchSent(f) ==
    CASE f = "landing" -> {}
      [] f = "r2"      -> {"state"}
      [] f = "r3"      -> {"state", "district", "complex"}
      [] OTHER         -> {}

\* The levels upstream of a level in the chain state -> district -> complex -> court.
Upstream(level) ==
    CASE level = "state"    -> {}
      [] level = "district" -> {"state"}
      [] level = "complex"  -> {"state", "district"}
      [] level = "court"    -> {"state", "district", "complex"}

\* The slice bounds of the sample labels in download_entire_cause_list's
\* SystemExit messages: states[:20], dists[:30], complexes[:30], courts[:40].
StateSampleMax == 20
DistSampleMax == 30
ComplexSampleMax == 30
CourtSampleMax == 40

SampleMax(level) ==
    CASE level = "state"    -> StateSampleMax
      [] level = "district" -> DistSampleMax
      [] level = "complex"  -> ComplexSampleMax
      [] level = "court"    -> CourtSampleMax

\* [o['text'] for o in opts[:n]]
SampleLabels(opts, n) ==
    [i \in 1..(IF Len(opts) < n THEN Len(opts) ELSE n) |-> opts[i].text]

NoError == [level |-> "none", input |-> PyNone, hasSample |-> FALSE, sample |-> <<>>]

\* The pages drawn populate the selects in the order of the cascade: among
\* the levels read from a page, a select holds options only if the selects
\* of the levels upstream of it do.
Cascaded(page, levels) ==
    \A l \in levels : page[l] # <<>> =>
        \A u \in Upstream(l) \cap levels : page[u] # <<>>

\* The SystemExit of a failed resolution.  download_entire_cause_list's
\* messages hold the level, the input and the sample labels (lines 868-870,
\* 873-875, 937-939, 966-968); prepare_causelist_request's hold the level and
\* the input only (lines 2131, 2135, 2180, 2207).
ResolutionError(f, level, input, opts) ==
    IF f = "download"
    THEN [level |-> level, input |-> input, hasSample |-> TRUE,
          sample |-> SampleLabels(opts, SampleMax(level))]
    ELSE [level |-> level, input |-> input, hasSample |-> FALSE, sample |-> <<>>]

NoSel == [l \in Levels |-> NotFound]
NoProv == [l \in Levels |-> "none"]

\* What the cascade leaves alone.
CascadeFrame ==
    /\ steps' = steps + 1
    /\ UNCHANGED <<rvars, cvars, pvars, fn, driver, inp, interactive, max_retries, cicri, attempt, ticks, saved,
                allTransient, results, capCount, capPaths, textCount, payloadText, posts,
                files, last, heap, payload>>

\* session.get(CAUSE_LIST_PAGE), raise_for_status, and the four
\* _parse_select_options calls on the landing page.
Landing(f) ==
    /\ fn = f
    /\ pc = "start"
    /\ \/ /\ pc' = "raised"
          /\ UNCHANGED <<lists, prov, anomaly, pageImg>>
       \/ /\ \E ls \in [Levels -> PageLists] :
                /\ Cascaded(ls, Levels)
                /\ lists' = ls
                /\ prov' = [l \in Levels |-> "landing"]
                /\ UNCHANGED anomaly
          /\ \E img \in (IF f = "app" THEN BOOLEAN ELSE {FALSE}) : pageImg' = img
          /\ pc' = "res_state"
    /\ UNCHANGED <<sel, usedProv, err, prompts>>
    /\ CascadeFrame

\* x_opt = _resolve_name_or_code(<list of the level>, <input>); if not x_opt: raise SystemExit.
ResolveLevel(f, level, nextpc) ==
    /\ fn = f
    /\ pc = "res_" \o level
    /\ \E reply \in CascadeReplies :
          LET r == Resolve(lists[level], inp[level], reply)
          IN  /\ prompts' = prompts + (IF r.prompted THEN 1 ELSE 0)
              /\ IF r.opt = NotFound
                 THEN /\ err' = ResolutionError(f, level, inp[level], lists[level])
                      /\ pc' = "failed"
                      /\ UNCHANGED <<sel, usedProv>>
                 ELSE /\ sel' = [sel EXCEPT ![level] = r.opt]
                      /\ usedProv' = [usedProv EXCEPT ![level] = prov[level]]
                      /\ pc' = nextpc
                      /\ UNCHANGED err
    /\ anomaly' = [anomaly EXCEPT ![level] = "none"]
    /\ UNCHANGED <<lists, prov, pageImg>>
    /\ CascadeFrame

\* The levels whose lists each function re-reads from the state POST's page:
\* dists, complexes and courts in download_entire_cause_list (lines 906-928),
\* complexes and courts in prepare_causelist_request (lines 2164-2173).
RereadAfterState(f) ==
    IF f = "download" THEN {"district", "complex", "court"} ELSE {"complex", "court"}

\* The lists after a page was parsed for the levels in `levels`: each becomes
\* `parsed or previous`, and its provenance changes only when the parsed list
\* is taken.
Merged(levels, page) ==
    [l \in Levels |-> IF l \in levels THEN ListOr(page[l], lists[l]) ELSE lists[l]]

MergedProv(levels, page, f) ==
    [l \in Levels |-> IF l \in levels /\ page[l] # <<>> THEN f ELSE prov[l]]

\* The levels still to be resolved for which the page parsed for `levels`
\* gave an empty list where the list held is not empty, marked with the
\* fetch f: `parsed or previous` keeps the previous list there.
Anomalies(levels, page, f) ==
    [l \in Levels |->
        IF l \in levels /\ sel[l] = NotFound /\ page[l] = <<>> /\ lists[l] # <<>>
        THEN f ELSE anomaly[l]]

\* r2 = session.post(CAUSE_LIST_PAGE, {state}); on an exception or a non-ok
\* status nothing changes; otherwise the downstream lists are re-read.
PostState(f) ==
    /\ fn = f
    /\ pc = "post_state"
    /\ \/ UNCHANGED <<lists, prov, anomaly, pageImg>>
       \/ \E page \in [Levels -> PageLists] :
             /\ \A l \in Levels \ RereadAfterState(f) : page[l] = <<>>
             /\ Cascaded(page, RereadAfterState(f))
             /\ lists' = Merged(RereadAfterState(f), page)
             /\ prov' = MergedProv(RereadAfterState(f), page, "r2")
             /\ anomaly' = Anomalies(RereadAfterState(f), page, "r2")
             /\ \E img \in (IF f = "app" THEN BOOLEAN ELSE {FALSE}) : pageImg' = img
    /\ pc' = "res_complex"
    /\ UNCHANGED <<sel, usedProv, err, prompts>>
    /\ CascadeFrame

\* r3 = session.post(CAUSE_LIST_PAGE, {state, dist, complex}); on an exception
\* or a non-ok status nothing changes; otherwise courts is re-read.
PostComplex(f) ==
    /\ fn = f
    /\ pc = "post_complex"
    /\ \/ UNCHANGED <<lists, prov, anomaly>>
       \/ \E page \in [Levels -> PageLists] :
             /\ \A l \in Levels \ {"court"} : page[l] = <<>>
             /\ lists' = Merged({"court"}, page)
             /\ prov' = MergedProv({"court"}, page, "r3")
             /\ anomaly' = Anomalies({"court"}, page, "r3")
    /\ pc' = "res_court"
    /\ UNCHANGED <<sel, usedProv, err, prompts, pageImg>>
    /\ CascadeFrame

DlLanding == Landing("download")
DlResolveState == ResolveLevel("download", "state", "res_district")
DlResolveDistrict == ResolveLevel("download", "district", "post_state")
DlPostState == PostState("download")
DlResolveComplex == ResolveLevel("download", "complex", "post_complex")
DlPostComplex == PostComplex("download")
DlResolveCourt == ResolveLevel("download", "court", "captcha")

PrepLanding == Landing("app")
PrepResolveState == ResolveLevel("app", "state", "res_district")
PrepResolveDistrict == ResolveLevel("app", "district", "post_state")
PrepPostState == PostState("app")
PrepResolveComplex == ResolveLevel("app", "complex", "post_complex")
PrepPostComplex == PostComplex("app")
PrepResolveCourt == ResolveLevel("app", "court", "captcha")

(***************************************************************************)
(* The submission loops: download_entire_cause_list (functions.py:982-1145)*)
(* and submit_causelist_attempt (functions.py:2270-2372)                   *)
(***************************************************************************)

\* The largest max_retries_on_popup (and `tries`) drawn.
MaxRetries == 2

\* What `j.get("pdfUrl") or j.get("pdf_url") or j.get("cause_list_pdf") or
\* j.get("pdf")` gives: nothing truthy ("absent": the body is not a JSON
\* object, or none of the fields is non-empty), a non-empty string ("url"),
\* or a truthy value that is not a string ("other").
PdfFields == {"absent", "url", "other"}

\* A response of the submit endpoint, by what the code inspects: whether the
\* POST returned at all with a 2xx status (net), the JSON pdf field, whether
\* its text holds a blocking-banner substring, an <a href="....pdf">, a <table>.
\* The bodies drawn with a truthy pdf field are JSON objects without markup.
Responses ==
    { r \in [net : BOOLEAN, pdfField : PdfFields, banner : BOOLEAN,
             anchor : BOOLEAN, tables : BOOLEAN] :
        /\ ~r.net => (r.pdfField = "absent" /\ ~r.banner /\ ~r.anchor /\ ~r.tables)
        /\ r.pdfField # "absent" => (~r.anchor /\ ~r.tables) }

\* Lines 1042-1062 and 2305-2324: the JSON step takes the response when the
\* field holds a string; `pdf_url.startswith` on another value raises inside
\* the try, and the except passes on to the HTML steps.
JsonPdf(resp) == resp.pdfField = "url"

\* DlClassify with the banner looked for before the JSON pdf field.
DlClassify_BannerFirst(resp) ==
    IF ~resp.net THEN "neterr"
    ELSE IF resp.banner THEN "banner"
    ELSE IF JsonPdf(resp) THEN "jsonpdf"
    ELSE IF resp.anchor THEN "anchor"
    ELSE "fallback"

\* The branch one iteration of download_entire_cause_list's loop takes
\* (lines 1017-1132): the except of the POST, the JSON pdf field, the banner
\* of try_close_in_html, the pdf anchor, else the table / body fallback.
DlClassify(resp) ==
    IF ~resp.net THEN "neterr"
    ELSE IF JsonPdf(resp) THEN "jsonpdf"
    ELSE IF resp.banner THEN "banner"
    ELSE IF resp.anchor THEN "anchor"
    ELSE "fallback"

\* The branch one iteration of submit_causelist_attempt's loop takes (lines
\* 2289-2370): the except of the POST, the JSON pdf field, the pdf anchor,
\* else the table / body fallback.  The response text is not searched for banners.
SubClassify(resp) ==
    IF ~resp.net THEN "neterr"
    ELSE IF JsonPdf(resp) THEN "jsonpdf"
    ELSE IF resp.anchor THEN "anchor"
    ELSE "fallback"

\* A response the engine is to treat as transient: a network error, or a
\* body without a JSON pdf field that holds a blocking-banner substring.
IsTransient(resp) == ~resp.net \/ (~JsonPdf(resp) /\ resp.banner)

\* `attempt += 1` with the loop counter never advancing.
NextAttempt_Stuck(a) == a

\* attempt += 1 (line 1016)
NextAttempt(a) == a + 1

\* The sleeps of the loops, in tenths of a second, after attempt a.
\* time.sleep(0.8 * attempt) in the except of the POST (line 1037).
DlNetDelay(a) == 8 * a

\* time.sleep(0.6 * attempt) after a blocking banner (line 1075).
DlBannerDelay(a) == 6 * a

\* Lines 1127-1130: the failed fallback sleeps 0.6 * attempt only when
\* another attempt is left; otherwise it breaks at once.
DlFallbackDelay(a) == IF a < max_retries THEN 6 * a ELSE 0

\* submit_causelist_attempt sleeps 0.6 * attempt in the except of the POST
\* and of the fallback (lines 2301 and 2369).
SubDelay(a) == 6 * a

\* Where the retry loop goes on `continue`: `while attempt < max_retries_on_popup`.
AfterContinue(a, back, out) == IF a < max_retries THEN back ELSE out

NoPayload == [text |-> 0, read |-> 0]

\* No submission POST was made yet in the loop running.
NoLast == [posted |-> FALSE]

\* The POST just made, appended to the history: the discriminator, the
\* number of captcha artifacts fetched on the session so far, the human
\* input the captcha text came from (0: the empty string of the
\* non-interactive mode) and the captcha image that input was read from.
Posted == Append(posts, [cicri |-> cicri, cap |-> capCount,
                         text |-> payloadText.text, read |-> payloadText.read])

LoopFrame ==
    /\ steps' = steps + 1
    /\ UNCHANGED <<rvars, cvars, pvars, fn, driver, inp, interactive, max_retries, lists, prov, anomaly, sel, usedProv,
                err, pageImg, prompts, ticks>>

\* Lines 985-1014 for one discriminator: the payload, then with interactive
\* _get_app_token_and_captcha (a captcha path or "" when the fetch failed)
\* and input(); without it the captcha field is "".
DlCaptcha ==
    /\ fn = "download"
    /\ pc = "captcha"
    /\ IF interactive
       THEN \E got \in BOOLEAN :
               /\ capCount' = capCount + (IF got THEN 1 ELSE 0)
               /\ textCount' = textCount + 1
               /\ payloadText' = [text |-> textCount + 1,
                                  read |-> IF got THEN capCount + 1 ELSE 0]
       ELSE /\ payloadText' = NoPayload
            /\ UNCHANGED <<capCount, textCount>>
    /\ attempt' = 0
    /\ saved' = "none"
    /\ allTransient' = TRUE
    /\ pc' = AfterContinue(0, "loop", "record")
    /\ last' = NoLast
    /\ UNCHANGED <<cicri, results, capPaths, posts, files>>
    /\ UNCHANGED <<heap, payload>>
    /\ LoopFrame

\* One iteration of `while attempt < max_retries_on_popup` (lines 1015-1132).
DlAttempt ==
    /\ fn = "download"
    /\ pc = "loop"
    /\ attempt < max_retries
    /\ attempt' = NextAttempt(attempt)
    /\ posts' = Posted
    /\ \E resp \in Responses :
          LET class == DlClassify(resp)
              answer(d) == [posted |-> TRUE, cicri |-> cicri, resp |-> resp,
                            class |-> class, delay |-> d]
          IN  /\ allTransient' = (allTransient /\ IsTransient(resp))
              /\ \/ /\ class \in {"neterr", "banner"}
                    /\ last' = answer(IF class = "neterr" THEN DlNetDelay(attempt')
                                      ELSE DlBannerDelay(attempt'))
                    /\ pc' = AfterContinue(attempt', "loop", "record")
                    /\ UNCHANGED <<saved, files>>
                 \/ /\ class \in {"jsonpdf", "anchor"}
                    /\ \E downloaded \in BOOLEAN :
                          files' = IF downloaded THEN files \cup {<<cicri, "pdf">>} ELSE files
                    /\ saved' = "pdf"
                    /\ last' = answer(0)
                    /\ pc' = "record"
                 \/ /\ class = "fallback"
                    /\ \/ /\ files' = files \cup {<<cicri, "html">>}
                          /\ saved' = "html"
                          /\ last' = answer(0)
                          /\ pc' = "record"
                       \/ /\ pc' = AfterContinue(attempt', "loop", "record")
                          /\ last' = answer(DlFallbackDelay(attempt'))
                          /\ UNCHANGED <<saved, files>>
    /\ UNCHANGED <<cicri, results, capCount, capPaths, textCount, payloadText>>
    /\ UNCHANGED <<heap, payload>>
    /\ LoopFrame

\* The loop over the discriminators giving up after a civil result that
\* saved nothing.
DlGoesOn_StopOnFailure(c, s) == c = "civ" /\ s # "none"

\* `for cicri in ("civ", "cri")` (line 984) goes on to the next
\* discriminator after the result of c was appended, whatever was saved.
DlGoesOn(c, s) == c = "civ"

\* Lines 1134-1145: results.append(...), then the next discriminator or
\* save_json(results, idx_path).
DlRecord ==
    /\ fn = "download"
    /\ pc = "record"
    /\ results' = Append(results, [cicri |-> cicri, saved |-> saved])
    /\ IF DlGoesOn(cicri, saved)
       THEN /\ cicri' = "cri"
            /\ pc' = "captcha"
            /\ UNCHANGED files
       ELSE /\ files' = files \cup {<<"index", "json">>}
            /\ pc' = "done"
            /\ UNCHANGED cicri
    /\ last' = NoLast
    /\ UNCHANGED <<attempt, saved, allTransient, capCount, capPaths, textCount,
                   payloadText, posts>>
    /\ UNCHANGED <<heap, payload>>
    /\ LoopFrame

\* d[k] = v on a dict.
DictSet(d, k, v) == [x \in (DOMAIN d) \cup {k} |-> IF x = k THEN v ELSE d[x]]

\* The form date, DD-MM-YYYY, shortened to "01-01".
S_date == <<48, 49, 45, 48, 49>>

\* "civ" and "cri" as payload values.
CicriText(c) == IF c = "civ" THEN <<99, 105, 118>> ELSE <<99, 114, 105>>

\* prepare_causelist_request's payload_template (lines 2217-2225), without
\* cicri and without the captcha.
Template ==
    [state_code         |-> sel["state"].value,
     dist_code          |-> sel["district"].value,
     court_complex_code |-> sel["complex"].value,
     CL_court_no        |-> sel["court"].value,
     court_name_txt     |-> sel["court"].text,
     causelist_date     |-> S_date,
     est_code           |-> S_empty]

\* `payload = payload_template` : the local names the caller's dict itself.
PayloadRef_Alias(h) == 1

\* payload = payload_template.copy() (line 2282): a new dict object.
PayloadRef(h) == Len(h) + 1

\* One iteration of prepare_causelist_request's captcha loop (lines
\* 2229-2258): when `soup` holds a securimage <img>, GET it and save it;
\* captcha_paths[cicri] is the saved image or None (0).
\* The submission POSTs after a pass of prepare_causelist_request's captcha
\* loop, were it to post the payload it built.
PrepPosts_Submit == Posted

\* The submission POSTs after a pass of prepare_causelist_request's captcha
\* loop (lines 2223-2265): session.get(cap_url) is its only request.
PrepPosts == posts

PrepCaptcha ==
    /\ fn = "app"
    /\ pc = "captcha"
    /\ \E got \in (IF pageImg THEN BOOLEAN ELSE {FALSE}) :
          /\ capCount' = capCount + (IF got THEN 1 ELSE 0)
          /\ capPaths' = [capPaths EXCEPT ![cicri] = IF got THEN capCount + 1 ELSE 0]
    /\ IF cicri = "civ"
       THEN cicri' = "cri" /\ pc' = "captcha"
       ELSE cicri' = "none" /\ pc' = "ready"
    /\ posts' = PrepPosts
    /\ UNCHANGED <<attempt, saved, allTransient, results, textCount, payloadText,
                   files, last>>
    /\ heap' = IF cicri = "civ" THEN <<Template>> ELSE heap
    /\ UNCHANGED payload
    /\ LoopFrame

\* The discriminators already submitted from the app.
Submitted == { results[i].cicri : i \in 1..Len(results) }

\* app.py:294-307 and 328-341: the operator types the captcha shown for c
\* and presses its submit button; submit_causelist_attempt copies the
\* template and adds cicri and the captcha text (lines 2282-2286).
AppSubmit(c) ==
    /\ fn = "app"
    /\ pc = "ready"
    /\ c \notin Submitted
    /\ cicri' = c
    /\ textCount' = textCount + 1
    /\ payloadText' = [text |-> textCount + 1, read |-> capPaths[c]]
    /\ attempt' = 0
    /\ saved' = "none"
    /\ allTransient' = TRUE
    /\ pc' = AfterContinue(0, "loop", "return")
    /\ last' = NoLast
    /\ UNCHANGED <<results, capCount, capPaths, posts, files>>
    /\ LET ref    == PayloadRef(heap)
           copied == IF ref > Len(heap) THEN Append(heap, heap[1]) ELSE heap
       IN  /\ payload' = ref
           /\ heap' = [copied EXCEPT ![ref] =
                          DictSet(DictSet(@, "cicri", CicriText(c)),
                                  "cause_list_captcha_code", <<textCount + 1>>)]
    /\ LoopFrame

\* One iteration of submit_causelist_attempt's loop (lines 2287-2370).
SubAttempt ==
    /\ fn = "app"
    /\ pc = "loop"
    /\ attempt < max_retries
    /\ attempt' = attempt + 1
    /\ posts' = Posted
    /\ \E resp \in Responses :
          LET class == SubClassify(resp)
              answer(d) == [posted |-> TRUE, cicri |-> cicri, resp |-> resp,
                            class |-> class, delay |-> d]
          IN  /\ allTransient' = (allTransient /\ IsTransient(resp))
              /\ \/ /\ class = "neterr"
                    /\ last' = answer(SubDelay(attempt'))
                    /\ pc' = AfterContinue(attempt', "loop", "return")
                    /\ UNCHANGED <<saved, files>>
                 \/ /\ class \in {"jsonpdf", "anchor"}
                    /\ \E downloaded \in BOOLEAN :
                          files' = IF downloaded THEN files \cup {<<cicri, "pdf">>} ELSE files
                    /\ saved' = "pdf"
                    /\ last' = answer(0)
                    /\ pc' = "return"
                 \/ /\ class = "fallback"
                    /\ \/ /\ files' = files \cup {<<cicri, "html">>}
                          /\ saved' = "html"
                          /\ last' = answer(0)
                          /\ pc' = "return"
                       \/ /\ pc' = AfterContinue(attempt', "loop", "return")
                          /\ last' = answer(SubDelay(attempt'))
                          /\ UNCHANGED <<saved, files>>
    /\ UNCHANGED <<cicri, results, capCount, capPaths, textCount, payloadText>>
    /\ UNCHANGED <<heap, payload>>
    /\ LoopFrame

\* submit_causelist_attempt returns `saved` and the app shows it
\* (app.py:308-316, 342-350).
AppReturn ==
    /\ fn = "app"
    /\ pc = "return"
    /\ results' = Append(results, [cicri |-> cicri, saved |-> saved])
    /\ pc' = IF Submitted \cup {cicri} = {"civ", "cri"} THEN "done" ELSE "ready"
    /\ cicri' = "none"
    /\ last' = NoLast
    /\ UNCHANGED <<attempt, saved, allTransient, capCount, capPaths, textCount,
                   payloadText, posts, files>>
    /\ payload' = 0
    /\ heap' = <<heap[1]>>
    /\ LoopFrame

(***************************************************************************)
(* get_case_listing_by_cnr_interactive (functions.py:332-381)              *)
(***************************************************************************)

\* The cnr argument get_case_listing is called with: None, "" or a CNR.
CnrArgs == {PyNone, S_empty, S_ab}

\* The locals of the lookup: the cnr argument, whether the search POST
\* returned a response, whether a response was parsed, and the kind of the
\* value returned.
CnrLocals(cnr, net, parsed, returned) ==
    [posted |-> FALSE, cnr |-> cnr, net |-> net, parsed |-> parsed, returned |-> returned]

\* get_case_listing (lines 619-630): with a cnr the interactive lookup runs,
\* without one the not_implemented error is returned at once.
GetCaseListing ==
    /\ fn = "cnr"
    /\ pc = "start"
    /\ \E cnr \in CnrArgs :
          IF Truthy(cnr)
          THEN /\ pc' = "captcha"
               /\ last' = CnrLocals(cnr, FALSE, FALSE, "pending")
          ELSE /\ pc' = "done"
               /\ last' = CnrLocals(cnr, FALSE, FALSE, "not_implemented")
    /\ UNCHANGED <<cicri, attempt, saved, allTransient, results, capCount, capPaths,
                   textCount, payloadText, posts, files>>
    /\ UNCHANGED <<heap, payload>>
    /\ LoopFrame

\* get_case_listing_by_cnr_interactive parsing whatever _post_search gave.
CnrParses_Always(net) == TRUE

\* Lines 368-372: `if resp is None: return {"error": "network", ...}`; only a
\* response is parsed.
CnrParses(net) == net

\* Lines 342-360: _get_app_token_and_captcha gives a captcha path, or "" when
\* the home page, the <img> or the download (after its tries) failed; either
\* way the operator is asked for the captcha text.
CnrCaptcha ==
    /\ fn = "cnr"
    /\ pc = "captcha"
    /\ \E got \in BOOLEAN :
          /\ capCount' = capCount + (IF got THEN 1 ELSE 0)
          /\ payloadText' = [text |-> textCount + 1,
                             read |-> IF got THEN capCount + 1 ELSE 0]
    /\ textCount' = textCount + 1
    /\ pc' = "search"
    /\ UNCHANGED <<cicri, attempt, saved, allTransient, results, capPaths, posts,
                   files, last>>
    /\ UNCHANGED <<heap, payload>>
    /\ LoopFrame

\* Lines 365-381: _post_search; None gives the error record, a response is
\* parsed and written to outputs/cnr/<cnr>.json.
CnrSearch ==
    /\ fn = "cnr"
    /\ pc = "search"
    /\ posts' = Posted
    /\ \E net \in BOOLEAN :
          LET parsed == CnrParses(net)
          IN  /\ files' = IF parsed THEN files \cup {<<"cnr", "json">>} ELSE files
              /\ last' = CnrLocals(last.cnr, net, parsed,
                                   IF parsed THEN "parsed" ELSE "network")
    /\ pc' = "done"
    /\ UNCHANGED <<cicri, attempt, saved, allTransient, results, capCount, capPaths,
                   textCount, payloadText>>
    /\ UNCHANGED <<heap, payload>>
    /\ LoopFrame

(***************************************************************************)
(* _download_captcha_with_retries (functions.py:144-178)                   *)
(***************************************************************************)

QuietFrame ==
    /\ steps' = steps + 1
    /\ UNCHANGED <<rvars, cvars, pvars, fn, inp, interactive, max_retries, lists, prov, anomaly, sel, usedProv,
                err, pageImg, cicri, saved, allTransient, results, capCount, capPaths,
                textCount, payloadText, posts, prompts, files, heap, payload>>

CapFrame == QuietFrame /\ UNCHANGED driver

\* The driver quit on explicit exits only, with no finally clause.
DriverAfter_NoFinally(p) == IF p = "failed" THEN "quit" ELSE "open"

\* The driver after a step of a Selenium call that leaves it at position p:
\* every exit out of the try (return, SystemExit, timeout, any other
\* exception) goes through `finally: driver.quit()` (lines 1718-1722 and
\* 2806-2810).
DriverAfter(p) ==
    IF p \in {"done", "failed", "raised", "crashed"} THEN "quit" ELSE "open"

OtherFrame == QuietFrame /\ UNCHANGED last /\ driver' = DriverAfter(pc')

\* webdriver.Chrome(...) or the driver manager raises (lines 1178-1179 and
\* 2405-2406, before the try): the call ends with no driver started.
DriverFails ==
    /\ fn \in {"selenium", "selprep"}
    /\ pc = "start"
    /\ pc' = "raised"
    /\ UNCHANGED <<attempt, ticks, last, driver>>
    /\ QuietFrame

\* time.sleep(0.8 * attempt) in the except of the GET (line 175), in tenths
\* of a second.
CapDelay_Flat(a) == 8

CapDelay(a) == 8 * a

\* The locals of _download_captcha_with_retries after a GET: whether it
\* succeeded, last_exc (0: None; k: the exception of the k-th GET) and the
\* sleep that followed.
CapLocals(ok, exc, d) == [posted |-> FALSE, got |-> ok, last_exc |-> exc, delay |-> d]

\* Lines 153-162: the URL and the headers, last_exc = None, then
\* `for attempt in range(1, tries + 1)`.
CapStart ==
    /\ fn = "captcha"
    /\ pc = "start"
    /\ attempt' = 0
    /\ last' = CapLocals(FALSE, 0, 0)
    /\ pc' = AfterContinue(0, "loop", "raised")
    /\ UNCHANGED ticks
    /\ CapFrame

\* One iteration (lines 163-175): the GET succeeds and the path is returned,
\* or it fails, last_exc is kept and the loop sleeps; after the last one
\* last_exc is raised (line 178).
CapTry ==
    /\ fn = "captcha"
    /\ pc = "loop"
    /\ attempt < max_retries
    /\ attempt' = attempt + 1
    /\ \/ /\ last' = CapLocals(TRUE, last.last_exc, 0)
          /\ pc' = "done"
       \/ /\ last' = CapLocals(FALSE, attempt', CapDelay(attempt'))
          /\ pc' = AfterContinue(attempt', "loop", "raised")
    /\ UNCHANGED ticks
    /\ CapFrame

(***************************************************************************)
(* The retry loops of download_entire_cause_list_selenium                  *)
(* (functions.py:1249-1722)                                                *)
(***************************************************************************)

\* `while attempts < 3` (line 1429)
SeCourtAttempts == 3

\* What the steps of the Selenium cascade leave alone.
SeFrame ==
    /\ steps' = steps + 1
    /\ UNCHANGED <<rvars, cvars, pvars, fn, inp, interactive, max_retries, lists, prov, anomaly,
                usedProv, pageImg, cicri, saved, allTransient, results, capCount, capPaths,
                textCount, payloadText, posts, prompts, files, last, heap, payload>>
    /\ driver' = DriverAfter(pc')

\* SystemExit with the message that names the level whose select or option
\* was not found.
SeExit(level) == [NoError EXCEPT !.level = level, !.input = inp[level]]

\* `for opt in select.options: if needle.strip().lower() in
\* (opt.text or "").strip().lower()` raises on the first option when the
\* needle is None (lines 1369 and 1483).
SeChooseRaises(opts, needle) == needle = PyNone /\ opts # <<>>

\* The option that loop chooses: the first whose text holds the needle.
SeChoose(opts, needle) ==
    LET Holds(o) == needle # PyNone /\ Contains(Lower(Strip(o.text)), Lower(Strip(needle)))
    IN  FirstWhere(opts, Holds)

\* The selectors script.py passes (lines 74-92): --state and --district are
\* required, --court-complex and --court-name default to None.
SeInputs ==
    { v \in [Levels -> {PyNone, S_a, S_zz}] : v["state"] = S_a /\ v["district"] = S_a }

\* Lines 1250-1350: the page, then the state and district selects.
\* A select or an option that is not found quits the driver and raises
\* SystemExit; a wait that times out raises.
SeCascade ==
    /\ fn = "selenium"
    /\ pc = "start"
    /\ attempt' = 0
    /\ \/ /\ pc' \in {"complex", "raised"}
          /\ UNCHANGED err
       \/ \E level \in {"state", "district"} :
             /\ pc' = "failed"
             /\ err' = SeExit(level)
    /\ UNCHANGED <<ticks, sel>>
    /\ SeFrame

\* Lines 1352-1388 (level "complex") and 1455-1502 (level "court"): the
\* select of the level and the option chosen by the selector.  A select that
\* is not found, or no option holding the selector, quits the driver and
\* raises SystemExit; with the selector None the first option evaluated
\* raises AttributeError out of the function ("crashed").
SeSelect(level, next) ==
    \E found \in BOOLEAN, opts \in PageLists :
        LET chosen == SeChoose(opts, inp[level])
        IN  IF ~found
            THEN pc' = "failed" /\ err' = SeExit(level) /\ UNCHANGED sel
            ELSE IF SeChooseRaises(opts, inp[level])
            THEN pc' = "crashed" /\ UNCHANGED <<err, sel>>
            ELSE IF chosen = NotFound
            THEN pc' = "failed" /\ err' = SeExit(level) /\ UNCHANGED sel
            ELSE /\ pc' \in next
                 /\ sel' = [sel EXCEPT ![level] = chosen]
                 /\ UNCHANGED err

SeComplex ==
    /\ fn = "selenium"
    /\ pc = "complex"
    /\ SeSelect("complex", {"court_wait"})
    /\ UNCHANGED <<attempt, ticks>>
    /\ SeFrame

\* One iteration of the court-options loop (lines 1429-1453): the wait
\* returns and the loop breaks, or it times out, attempts += 1, the alerts
\* are closed and the change event is re-dispatched; the `else` of the loop
\* quits the driver and raises SystemExit.
SeCourtWait ==
    /\ fn = "selenium"
    /\ pc = "court_wait"
    /\ attempt < SeCourtAttempts
    /\ \/ /\ pc' = "court"
          /\ UNCHANGED attempt
       \/ /\ attempt' = attempt + 1
          /\ pc' = IF attempt' < SeCourtAttempts THEN "court_wait" ELSE "failed"
    /\ UNCHANGED ticks
    /\ OtherFrame

\* Lines 1455-1519: the court select and its option, then the date (a
\* causelist_date that does not parse raises ValueError).
SeCourt ==
    /\ fn = "selenium"
    /\ pc = "court"
    /\ SeSelect("court", {"cicri", "raised"})
    /\ attempt' = 0
    /\ UNCHANGED ticks
    /\ SeFrame

\* One iteration of `for cicri_label in ("Civil", "Criminal")` (lines
\* 1524-1707), then the index (lines 1709-1716).  Each iteration makes one
\* click at most; there is no retry inside it.
SeCicri ==
    /\ fn = "selenium"
    /\ pc = "cicri"
    /\ attempt' = attempt + 1
    /\ pc' = IF attempt' < 2 THEN "cicri" ELSE "done"
    /\ UNCHANGED ticks
    /\ OtherFrame

(***************************************************************************)
(* The retry loops of selenium_prepare_causelist (functions.py:2636-2810)  *)
(***************************************************************************)

\* `while tries < 5` (line 2704)
SpCourtTries == 5

\* The number of polls of wait_for_select_options (sleeping 0.3 s after
\* each) that fit before its deadline.
MaxWaitTicks == 2

\* Lines 2637-2664: the page and the state select; then the district select
\* is looked up and, when found, waited for.
SpStart ==
    /\ fn = "selprep"
    /\ pc = "start"
    /\ attempt' = 0
    /\ ticks' = 0
    /\ pc' \in {"wait_district", "select_district", "failed", "raised"}
    /\ OtherFrame

\* wait_for_select_options (lines 2482-2498): `while time.time() < deadline`;
\* a poll finds enough options and returns True, or closes the alerts and
\* sleeps; past the deadline it returns False.  `stage` is the select waited for.
SpPoll(stage) ==
    /\ fn = "selprep"
    /\ pc = "wait_" \o stage
    /\ IF ticks < MaxWaitTicks
       THEN \/ /\ pc' = IF stage = "court" THEN "capture" ELSE "select_" \o stage
               /\ UNCHANGED <<ticks, attempt>>
            \/ /\ ticks' = ticks + 1
               /\ UNCHANGED <<pc, attempt>>
       ELSE IF stage = "court"
            THEN /\ attempt' = attempt + 1
                 /\ ticks' = 0
                 /\ pc' = "retry_court"
            ELSE /\ pc' = "select_" \o stage
                 /\ UNCHANGED <<ticks, attempt>>
    /\ OtherFrame

SpPollDistrict == SpPoll("district")
SpPollComplex == SpPoll("complex")
SpPollCourt == SpPoll("court")

\* Lines 2671-2683 and 2688-2699: the select is looked up again and the
\* option selected, or SystemExit; then the next select is looked up and,
\* when found, waited for.
SpSelect(stage, waitpc, nextpc) ==
    /\ fn = "selprep"
    /\ pc = "select_" \o stage
    /\ ticks' = 0
    /\ pc' \in {waitpc, nextpc, "failed"}
    /\ UNCHANGED attempt
    /\ OtherFrame

SpSelectDistrict == SpSelect("district", "wait_complex", "select_complex")
SpSelectComplex == SpSelect("complex", "retry_court", "retry_court")

\* The head of one iteration of `while tries < 5` (lines 2704-2722):
\* find_select_by_hint; a select that is found is waited for, one that is
\* not counts as a failed try.  After the loop the flow goes on to the captures.
SpRetryCourt ==
    /\ fn = "selprep"
    /\ pc = "retry_court"
    /\ IF attempt < SpCourtTries
       THEN \/ /\ pc' = "wait_court"
               /\ ticks' = 0
               /\ UNCHANGED attempt
            \/ /\ attempt' = attempt + 1
               /\ UNCHANGED <<pc, ticks>>
       ELSE /\ pc' = "capture"
            /\ UNCHANGED <<attempt, ticks>>
    /\ OtherFrame

\* Lines 2723-2802: the court option, the date, the Civil capture, the
\* reload, the Criminal capture, the cookies.
SpCapture ==
    /\ fn = "selprep"
    /\ pc = "capture"
    /\ pc' \in {"done", "raised"}
    /\ UNCHANGED <<attempt, ticks>>
    /\ OtherFrame

(***************************************************************************)
(* Specifications                                                          *)
(***************************************************************************)

Fns == {"download", "app", "cnr", "captcha", "selenium", "selprep"}

NoInputs == [l \in Levels |-> PyNone]

\* The flow variables at the start of a call of entry point f.
FStart(f) ==
    /\ fn = f
    /\ pc = "start"
    /\ inp \in (IF f \in {"download", "app"} THEN InputVectors
               ELSE IF f = "selenium" THEN SeInputs ELSE {NoInputs})
    /\ interactive \in (IF f = "download" THEN BOOLEAN ELSE {TRUE})
    /\ max_retries \in (IF f \in {"download", "app", "captcha"} THEN 0..MaxRetries ELSE {0})
    /\ lists = [l \in Levels |-> <<>>]
    /\ prov = NoProv
    /\ anomaly = NoProv
    /\ sel = NoSel
    /\ usedProv = NoProv
    /\ err = NoError
    /\ pageImg = FALSE
    /\ cicri = IF f \in {"download", "app"} THEN "civ" ELSE "none"
    /\ attempt = 0
    /\ ticks = 0
    /\ saved = "none"
    /\ allTransient = TRUE
    /\ results = <<>>
    /\ capCount = 0
    /\ capPaths = [civ |-> 0, cri |-> 0]
    /\ textCount = 0
    /\ payloadText = NoPayload
    /\ posts = <<>>
    /\ prompts = 0
    /\ files = {}
    /\ last = NoLast
    /\ heap = <<>>
    /\ payload = 0
    /\ steps = 0
    /\ driver = "none"

\* The resolver harness at rest.
RIdle ==
    /\ r_pc = "idle"
    /\ r_opts = <<>>
    /\ r_input = PyNone
    /\ r_reply = <<>>
    /\ r_out = NoOutcome

\* The concurrent queries.
Queries == {1, 2}

\* No concurrent query is running.
CIdle ==
    /\ q_pc = [q \in Queries |-> "idle"]
    /\ q_orig = [q \in Queries |-> 0]
    /\ q_path = [q \in Queries |-> 0]
    /\ q_seen = [q \in Queries |-> 0]
    /\ q_asked = [q \in Queries |-> 0]
    /\ builtinsInput = 0
    /\ capFile = <<>>
    /\ clock = 1

\* The parser harness at rest.
PLocalsIdle ==
    /\ p_fetch = "none"
    /\ p_i = 0
    /\ section_name = PyNone
    /\ current_cases = <<>>
    /\ all_sections = <<>>

PIdle ==
    /\ p_pc = "idle"
    /\ p_in = <<>>
    /\ p_out = <<>>
    /\ PLocalsIdle

Init == RIdle /\ CIdle /\ PIdle /\ \E f \in Fns : FStart(f)

Next ==
    \/ DlLanding \/ DlResolveState \/ DlResolveDistrict \/ DlPostState
    \/ DlResolveComplex \/ DlPostComplex \/ DlResolveCourt
    \/ DlCaptcha \/ DlAttempt \/ DlRecord
    \/ PrepLanding \/ PrepResolveState \/ PrepResolveDistrict \/ PrepPostState
    \/ PrepResolveComplex \/ PrepPostComplex \/ PrepResolveCourt
    \/ PrepCaptcha \/ AppSubmit("civ") \/ AppSubmit("cri") \/ SubAttempt \/ AppReturn
    \/ GetCaseListing \/ CnrCaptcha \/ CnrSearch
    \/ CapStart \/ CapTry
    \/ DriverFails
    \/ SeCascade \/ SeComplex \/ SeCourtWait \/ SeCourt \/ SeCicri
    \/ SpStart \/ SpPollDistrict \/ SpSelectDistrict \/ SpPollComplex
    \/ SpSelectComplex \/ SpRetryCourt \/ SpPollCourt \/ SpCapture

\* The calls of the cause-list entry points.
Spec == Init /\ [][Next]_vars

\* The same, with every call going on while it has a step to take: each
\* collaborator call returns.
FairSpec == Spec /\ WF_vars(Next)

\* A call has ended: it returned, or raised SystemExit or another exception.
Ended == pc \in {"done", "failed", "raised", "crashed"}

RInit ==
    /\ r_pc = "call"
    /\ r_opts \in OptionLists
    /\ r_input \in UserInputs
    /\ r_reply \in Replies
    /\ r_out = NoOutcome
    /\ CIdle
    /\ PIdle
    /\ FStart("none")

\* One call of _resolve_name_or_code.
RCall ==
    /\ r_pc = "call"
    /\ r_out' = Resolve(r_opts, r_input, r_reply)
    /\ r_pc' = "done"
    /\ UNCHANGED <<r_opts, r_input, r_reply>>
    /\ UNCHANGED <<fvars, cvars, pvars>>

RNext == RCall

\* The resolver alone, on every bounded option list, input and reply.
SpecResolve == RInit /\ [][RNext]_vars

(***************************************************************************)
(* Two interactive queries run concurrently, each with its own session and *)
(* under its own InputPatcher (functions.py:181-241, 1840-1849)            *)
(***************************************************************************)

\* The last second of the clock drawn.
MaxClock == 2

\* The file outputs/cnr/captcha_<second>.jpg: the session that wrote it last, 0 if absent.
FileAt(second) == IF second \in DOMAIN capFile THEN capFile[second] ELSE 0

\* f.write of a file: the content replaces whatever the path held.
Written(second, q) ==
    [t \in (DOMAIN capFile) \cup {second} |-> IF t = second THEN q ELSE capFile[t]]

CFrame == UNCHANGED <<rvars, fvars, pvars>>

\* A second passes.
Tick ==
    /\ clock < MaxClock
    /\ clock' = clock + 1
    /\ UNCHANGED <<q_pc, q_orig, q_path, q_seen, q_asked, builtinsInput, capFile>>
    /\ CFrame

\* InputPatcher.__init__ (lines 1841-1843): self._orig_input = builtins.input
PatchInit(q) ==
    /\ q_pc[q] = "init"
    /\ q_orig' = [q_orig EXCEPT ![q] = builtinsInput]
    /\ q_pc' = [q_pc EXCEPT ![q] = "enter"]
    /\ UNCHANGED <<q_path, q_seen, q_asked, builtinsInput, capFile, clock>>
    /\ CFrame

\* InputPatcher.__enter__ (lines 1845-1846): builtins.input = the provider
PatchEnter(q) ==
    /\ q_pc[q] = "enter"
    /\ builtinsInput' = q
    /\ q_pc' = [q_pc EXCEPT ![q] = "fetch"]
    /\ UNCHANGED <<q_orig, q_path, q_seen, q_asked, capFile, clock>>
    /\ CFrame

\* _get_app_token_and_captcha (lines 228-236): the file is named after
\* datetime.now() to the second and the session's captcha is written to it.
QueryFetch(q) ==
    /\ q_pc[q] = "fetch"
    /\ q_path' = [q_path EXCEPT ![q] = clock]
    /\ capFile' = Written(clock, q)
    /\ q_pc' = [q_pc EXCEPT ![q] = "read"]
    /\ UNCHANGED <<q_orig, q_seen, q_asked, builtinsInput, clock>>
    /\ CFrame

\* The operator opens captcha_path and the library calls input()
\* (lines 1000-1004): the image shown is what the file holds now, the answer
\* comes from what builtins.input is now.
QueryRead(q) ==
    /\ q_pc[q] = "read"
    /\ q_seen' = [q_seen EXCEPT ![q] = FileAt(q_path[q])]
    /\ q_asked' = [q_asked EXCEPT ![q] = builtinsInput]
    /\ q_pc' = [q_pc EXCEPT ![q] = "exit"]
    /\ UNCHANGED <<q_orig, q_path, builtinsInput, capFile, clock>>
    /\ CFrame

\* InputPatcher.__exit__ (lines 1848-1849): builtins.input = self._orig_input
PatchExit(q) ==
    /\ q_pc[q] = "exit"
    /\ builtinsInput' = q_orig[q]
    /\ q_pc' = [q_pc EXCEPT ![q] = "done"]
    /\ UNCHANGED <<q_orig, q_path, q_seen, q_asked, capFile, clock>>
    /\ CFrame

CInit ==
    /\ q_pc = [q \in Queries |-> "init"]
    /\ q_orig = [q \in Queries |-> 0]
    /\ q_path = [q \in Queries |-> 0]
    /\ q_seen = [q \in Queries |-> 0]
    /\ q_asked = [q \in Queries |-> 0]
    /\ builtinsInput = 0
    /\ capFile = <<>>
    /\ clock = 1
    /\ RIdle
    /\ PIdle
    /\ FStart("none")

CNext ==
    \/ Tick
    \/ \E q \in Queries :
          PatchInit(q) \/ PatchEnter(q) \/ QueryFetch(q) \/ QueryRead(q) \/ PatchExit(q)

\* Two queries with independent sessions, in every interleaving.
SpecConcurrent == CInit /\ [][CNext]_vars

(***************************************************************************)
(* The court-name fields of parse_eCourts_response (functions.py:499-527)   *)
(***************************************************************************)

\* "JUDGE"
T_JUDGE == <<74, 85, 68, 71, 69>>

\* The claim's example: "1-CIVIL JUDGE J.D. AND J.M.F.C. PMC PUNE"
T_example == <<49, 45, 67, 73, 86, 73, 76, 32, 74, 85, 68, 71, 69, 32, 74, 46, 68, 46, 32, 65, 78, 68, 32, 74, 46, 77, 46, 70, 46, 67, 46, 32, 80, 77, 67, 32, 80, 85, 78, 69>>

\* What can precede the court name: "", "1-", "12 - ", " 7 -"
CourtPrefixes == {<<>>, <<49, 45>>, <<49, 50, 32, 45, 32>>, <<32, 55, 32, 45>>}

\* What can stand before JUDGE: "", "CIVIL ", "civil  ", "2ND CIVIL ", "JT. CIVIL ", "3-CIVIL "
CourtMiddles == {<<>>, <<67, 73, 86, 73, 76, 32>>, <<99, 105, 118, 105, 108, 32, 32>>, <<50, 78, 68, 32, 67, 73, 86, 73, 76, 32>>, <<74, 84, 46, 32, 67, 73, 86, 73, 76, 32>>, <<51, 45, 67, 73, 86, 73, 76, 32>>}

\* What can follow JUDGE: "", " PUNE ", " J.D. AND JUDGE", "S COURT"
CourtSuffixes == {<<>>, <<32, 80, 85, 78, 69, 32>>, <<32, 74, 46, 68, 46, 32, 65, 78, 68, 32, 74, 85, 68, 71, 69>>, <<83, 32, 67, 79, 85, 82, 84>>}

\* A court name without the token: "1-DISTRICT COURT"
T_nojudge == <<49, 45, 68, 73, 83, 84, 82, 73, 67, 84, 32, 67, 79, 85, 82, 84>>

\* The raw court-name strings drawn.
CourtNames ==
    { pre \o mid \o T_JUDGE \o suf :
        pre \in CourtPrefixes, mid \in CourtMiddles, suf \in CourtSuffixes }
    \cup {T_example, T_nojudge}

IsAlpha(c) == c \in 65..90 \/ c \in 97..122

UpperChar(c) == IF c \in 97..122 THEN c - 32 ELSE c

\* s[from:], 1-based and total.
StrFrom(s, from) == IF from > Len(s) THEN <<>> ELSE SubSeq(s, from, Len(s))

\* The number of leading elements of s, from position i on, that satisfy `in`.
RECURSIVE RunLen(_, _, _)
RunLen(s, i, in) ==
    IF i > Len(s) \/ s[i] \notin in THEN 0 ELSE 1 + RunLen(s, i + 1, in)

Digits == 48..57
Spaces == { c \in 0..127 : IsSpace(c) }
Letters == (65..90) \cup (97..122)

\* `.*` : up to the first newline.
TakeLine(s) == SubSeq(s, 1, RunLen(s, 1, (0..127) \ {10}))

\* re.match(r"\s*(\d+)\s*-\s*(.*)", text): the groups, or hit FALSE.
SerialMatch(text) ==
    LET a == 1 + RunLen(text, 1, Spaces)
        d == RunLen(text, a, Digits)
        b == a + d + RunLen(text, a + d, Spaces)
        c == b + 1 + RunLen(text, b + 1, Spaces)
    IN  IF d > 0 /\ b <= Len(text) /\ text[b] = 45
        THEN [hit |-> TRUE, serial |-> SubSeq(text, a, a + d - 1),
              rest |-> TakeLine(StrFrom(text, c))]
        ELSE [hit |-> FALSE, serial |-> PyNone, rest |-> text]

\* "JUDGE" stands at position k of s, in any case.
JudgeAt(s, k) == k + 4 <= Len(s) /\ Lower(SubSeq(s, k, k + 4)) = Lower(T_JUDGE)

\* The lengths L of a group 1 of ([A-Z\s]+?)\s*JUDGE (re.I) starting at i.
GroupLens(s, i) ==
    { L \in 1..RunLen(s, i, Letters \cup Spaces) :
        JudgeAt(s, i + L + RunLen(s, i + L, Spaces)) }

Min(S) == CHOOSE x \in S : \A y \in S : x <= y

\* re.search(r"([A-Z\s]+?)\s*JUDGE", s, re.I): the leftmost start that
\* matches, the shortest group 1 there, and the position of JUDGE.
JudgeSearch(s) ==
    LET starts == { i \in 1..Len(s) : GroupLens(s, i) # {} }
    IN  IF starts = {} THEN [hit |-> FALSE, group |-> <<>>, judge |-> 0]
        ELSE LET i == Min(starts)
                 L == Min(GroupLens(s, i))
             IN  [hit |-> TRUE, group |-> SubSeq(s, i, i + L - 1),
                  judge |-> i + L + RunLen(s, i + L, Spaces)]

\* str.title(): a letter that follows a letter is lowered, any other letter is raised.
Title(s) ==
    [i \in 1..Len(s) |->
        IF ~IsAlpha(s[i]) THEN s[i]
        ELSE IF i > 1 /\ IsAlpha(s[i - 1]) THEN LowerChar(s[i]) ELSE UpperChar(s[i])]

\* The final tidy of a field (lines 606-611) on a string without backslashes.
Tidy(v) == IF v = PyNone THEN PyNone ELSE Strip(v)

\* Lines 499-527 and 606-611: serial_number, court_name_clean and
\* judge_name_and_court_address of a non-empty court_name.
ParseCourtName(court_name) ==
    LET text == Strip(court_name)
        m    == SerialMatch(text)
        n    == JudgeSearch(m.rest)
    IN  [serial |-> Tidy(m.serial),
         clean  |-> Tidy(IF n.hit THEN Title(Strip(n.group)) ELSE m.rest),
         judge  |-> Tidy(IF n.hit THEN Strip(StrFrom(m.rest, n.judge)) ELSE PyNone)]

CnInit ==
    /\ p_pc = "call"
    /\ p_in \in CourtNames
    /\ p_out = <<>>
    /\ PLocalsIdle
    /\ RIdle
    /\ CIdle
    /\ FStart("none")

\* One call of the court-name step of parse_eCourts_response.
CnCall ==
    /\ p_pc = "call"
    /\ p_out' = ParseCourtName(p_in)
    /\ p_pc' = "done"
    /\ UNCHANGED <<p_in, plocals, rvars, fvars, cvars>>

CnNext == CnCall

\* The court-name step alone, on every court name drawn.
SpecCourtName == CnInit /\ [][CnNext]_vars

(***************************************************************************)
(* The hearing date of parse_eCourts_response (functions.py:574-601)        *)
(***************************************************************************)

\* A calendar date, as datetime.date holds it: year, month, day.
Date(y, m, d) == <<y, m, d>>

IsLeap(y) == y % 4 = 0 /\ (y % 100 # 0 \/ y % 400 = 0)

DaysInMonth(y, m) ==
    IF m = 2 THEN (IF IsLeap(y) THEN 29 ELSE 28)
    ELSE IF m \in {4, 6, 9, 11} THEN 30 ELSE 31

\* today + timedelta(days=1)
NextDay(t) ==
    IF t[3] < DaysInMonth(t[1], t[2]) THEN Date(t[1], t[2], t[3] + 1)
    ELSE IF t[2] < 12 THEN Date(t[1], t[2] + 1, 1)
    ELSE Date(t[1] + 1, 1, 1)

\* The dates the page can carry and the days the parser can run on.
Dates ==
    { Date(2024, 2, 28), Date(2024, 2, 29), Date(2024, 3, 1),
      Date(2025, 2, 28), Date(2025, 3, 1), Date(2025, 3, 4), Date(2025, 4, 3),
      Date(2025, 4, 13), Date(2025, 12, 31), Date(2026, 1, 1) }

Todays ==
    { Date(2024, 2, 28), Date(2025, 2, 28), Date(2025, 4, 3), Date(2025, 12, 31) }

\* The names dateutil's parserinfo knows the months by (lowered).
MonthNames ==
    <<
       <<106, 97, 110, 117, 97, 114, 121>>,  \* january
       <<102, 101, 98, 114, 117, 97, 114, 121>>,  \* february
       <<109, 97, 114, 99, 104>>,  \* march
       <<97, 112, 114, 105, 108>>,  \* april
       <<109, 97, 121>>,  \* may
       <<106, 117, 110, 101>>,  \* june
       <<106, 117, 108, 121>>,  \* july
       <<97, 117, 103, 117, 115, 116>>,  \* august
       <<115, 101, 112, 116, 101, 109, 98, 101, 114>>,  \* september
       <<111, 99, 116, 111, 98, 101, 114>>,  \* october
       <<110, 111, 118, 101, 109, 98, 101, 114>>,  \* november
       <<100, 101, 99, 101, 109, 98, 101, 114>>  \* december
    >>

\* Decimal digits of n, without padding.
RECURSIVE Dec(_)
Dec(n) == IF n < 10 THEN <<48 + n>> ELSE Dec(n \div 10) \o <<48 + (n % 10)>>

\* Two decimal digits of n < 100.
Dec2(n) == <<48 + (n \div 10), 48 + (n % 10)>>

\* The English ordinal suffix of a day of the month.
OrdSuffix(d) ==
    IF d \in {1, 21, 31} THEN <<115, 116>>
    ELSE IF d \in {2, 22} THEN <<110, 100>>
    ELSE IF d \in {3, 23} THEN <<114, 100>>
    ELSE <<116, 104>>

\* The ways the page writes a date: "28-02-2025", "28/02/2025",
\* "28th February 2025", "28 FEBRUARY 2025" and "2025-02-28".
DateFormats == {"dmy-", "dmy/", "ordinal", "long", "iso"}

FormatDate(f, t) ==
    CASE f = "dmy-"    -> Dec2(t[3]) \o <<45>> \o Dec2(t[2]) \o <<45>> \o Dec(t[1])
      [] f = "dmy/"    -> Dec2(t[3]) \o <<47>> \o Dec2(t[2]) \o <<47>> \o Dec(t[1])
      [] f = "ordinal" -> Dec(t[3]) \o OrdSuffix(t[3]) \o <<32>>
                          \o Title(MonthNames[t[2]]) \o <<32>> \o Dec(t[1])
      [] f = "long"    -> Dec(t[3]) \o <<32>>
                          \o [i \in 1..Len(MonthNames[t[2]]) |-> UpperChar(MonthNames[t[2]][i])]
                          \o <<32>> \o Dec(t[1])
      [] f = "iso"     -> Dec(t[1]) \o <<45>> \o Dec2(t[2]) \o <<45>> \o Dec2(t[3])

\* Fields that hold no date: absent, "", "Not Listed", "31-02-2025", "29th February 2025".
NoDateStrings ==
    { PyNone, <<>>, <<78, 111, 116, 32, 76, 105, 115, 116, 101, 100>>, <<51, 49, 45, 48, 50, 45, 50, 48, 50, 53>>, <<50, 57, 116, 104, 32, 70, 101, 98, 114, 117, 97, 114, 121, 32, 50, 48, 50, 53>> }

\* The values of next_hearing_date and of first_hearing_date drawn.
NextStrings == { FormatDate(f, t) : f \in DateFormats, t \in Dates } \cup NoDateStrings

FirstStrings ==
    { FormatDate(f, t) : f \in {"dmy-", "ordinal"},
                         t \in {Date(2024, 2, 29), Date(2025, 3, 1), Date(2025, 4, 3), Date(2026, 1, 1)} }
    \cup NoDateStrings

\* The suffixes the substitution removes after digits.
OrdinalSuffixes == {<<115, 116>>, <<110, 100>>, <<114, 100>>, <<116, 104>>}

\* re.sub(r"(\d+)(?:st|nd|rd|th)", r"\1", s)
RECURSIVE StripOrdinals(_)
StripOrdinals(s) ==
    IF s = <<>> THEN <<>>
    ELSE LET d == RunLen(s, 1, Digits)
         IN  IF d = 0 THEN <<s[1]>> \o StripOrdinals(StrFrom(s, 2))
             ELSE IF d + 2 <= Len(s) /\ SubSeq(s, d + 1, d + 2) \in OrdinalSuffixes
             THEN SubSeq(s, 1, d) \o StripOrdinals(StrFrom(s, d + 3))
             ELSE SubSeq(s, 1, d) \o StripOrdinals(StrFrom(s, d + 1))

\* dateutil's lexer on digits, letters and separators: maximal runs of
\* digits, maximal runs of letters, every other character alone.
RECURSIVE Tokenize(_)
Tokenize(s) ==
    IF s = <<>> THEN <<>>
    ELSE LET n == IF s[1] \in Digits THEN RunLen(s, 1, Digits)
                  ELSE IF s[1] \in Letters THEN RunLen(s, 1, Letters)
                  ELSE 1
         IN  <<SubSeq(s, 1, n)>> \o Tokenize(StrFrom(s, n + 1))

\* parserinfo.jump: the tokens skipped between the members of a date.
IsJump(tok) ==
    Lower(tok) \in {<<32>>, <<46>>, <<44>>, <<59>>, <<45>>, <<47>>, <<39>>} \cup OrdinalSuffixes

\* parserinfo.month: the number of the month a token names, 0 if none.
MonthOf(tok) ==
    LET ms == { m \in 1..12 : Lower(tok) = MonthNames[m]
                              \/ Lower(tok) = SubSeq(MonthNames[m], 1, 3) }
    IN  IF ms = {} THEN 0 ELSE CHOOSE m \in ms : TRUE

\* The members of a date among the tokens, in order; bad is set by a
\* token that is neither a number, a month name nor skipped.
RECURSIVE Members(_)
Members(toks) ==
    IF toks = <<>> THEN [bad |-> FALSE, ms |-> <<>>]
    ELSE LET t == toks[1]
             r == Members(SubSeq(toks, 2, Len(toks)))
         IN  IF t[1] \in Digits
             THEN [bad |-> r.bad,
                   ms |-> <<[kind |-> IF Len(t) > 2 THEN "y" ELSE "n", val |-> DigitsValue(t)]>> \o r.ms]
             ELSE IF MonthOf(t) > 0
             THEN [bad |-> r.bad, ms |-> <<[kind |-> "m", val |-> MonthOf(t)]>> \o r.ms]
             ELSE IF IsJump(t) THEN r
             ELSE [bad |-> TRUE, ms |-> r.ms]

\* The positions of the members of a kind.
KindIdx(ms, k) == { i \in 1..Len(ms) : ms[i].kind = k }

\* _ymd.resolve_ymd(yearfirst=False, dayfirst=True) on three members of
\* which exactly one is a year of more than two digits; the strings drawn
\* have three members or none.
ResolveYmd(ms) ==
    LET ys == KindIdx(ms, "y")
        mo == KindIdx(ms, "m")
        v  == [i \in 1..3 |-> ms[i].val]
    IN  IF mo # {}
        THEN LET yi == CHOOSE i \in ys : TRUE
                 mi == CHOOSE i \in mo : TRUE
                 di == CHOOSE i \in 1..3 : i # yi /\ i # mi
             IN  Date(v[yi], v[mi], v[di])
        ELSE IF v[1] > 31 \/ ys = {1}
        THEN (IF v[3] <= 12 THEN Date(v[1], v[3], v[2]) ELSE Date(v[1], v[2], v[3]))
        ELSE IF v[1] > 12 \/ v[2] <= 12 THEN Date(v[3], v[2], v[1])
        ELSE Date(v[3], v[1], v[2])

\* datetime.replace accepts the date.
ValidDate(t) == t[2] \in 1..12 /\ t[3] \in 1..DaysInMonth(t[1], t[2])

\* dateparser.parse(s_clean, dayfirst=True): the date, or PyNone where it raises.
DateutilParse(s) ==
    LET r == Members(Tokenize(s))
    IN  IF r.bad \/ Len(r.ms) # 3 THEN PyNone
        ELSE IF Cardinality(KindIdx(r.ms, "y")) # 1 \/ Cardinality(KindIdx(r.ms, "m")) > 1
        THEN PyNone
        ELSE IF ValidDate(ResolveYmd(r.ms)) THEN ResolveYmd(r.ms) ELSE PyNone

\* parse_date_try (lines 576-584)
parse_date_try(s) ==
    IF s = PyNone \/ s = <<>> THEN PyNone
    ELSE DateutilParse(StripOrdinals(s))

\* chosen_date = next_dt or first_dt: without the fallback.
ChosenDate_NoFallback(next_dt, first_dt) == next_dt

\* chosen_date = next_dt or first_dt
ChosenDate(next_dt, first_dt) == IF next_dt # PyNone THEN next_dt ELSE first_dt

\* Lines 586-601: listed and listed_when.
HearingClass(next, first, today) ==
    LET chosen_date == ChosenDate(parse_date_try(next), parse_date_try(first))
    IN  [listed |-> chosen_date # PyNone,
         listed_when |->
            IF chosen_date = PyNone THEN "none"
            ELSE IF chosen_date = today THEN "today"
            ELSE IF chosen_date = NextDay(today) THEN "tomorrow"
            ELSE "other"]

HdInit ==
    /\ p_pc = "call"
    /\ p_in \in [next : NextStrings, first : FirstStrings, today : Todays]
    /\ p_out = <<>>
    /\ PLocalsIdle
    /\ RIdle
    /\ CIdle
    /\ FStart("none")

\* One call of the hearing-date step of parse_eCourts_response.
HdCall ==
    /\ p_pc = "call"
    /\ p_out' = HearingClass(p_in.next, p_in.first, p_in.today)
    /\ p_pc' = "done"
    /\ UNCHANGED <<p_in, plocals, rvars, fvars, cvars>>

HdNext == HdCall

\* The hearing-date step alone, on every pair of fields and every day drawn.
SpecHearing == HdInit /\ [][HdNext]_vars

(***************************************************************************)
(* parse_cause_list_html (functions.py:1725-1833)                           *)
(***************************************************************************)

\* The longest document drawn, in rows.
MaxRows == 4

\* A row of a dispTable: the texts of its td cells, and whether its markup
\* carries the blue of a section title ("color:#3880d4").
Row(cells, blue) == [tds |-> cells, blue |-> blue]

\* <tr><td>Civil Cases</td></tr>
R_civil == Row(<<<<67, 105, 118, 105, 108, 32, 67, 97, 115, 101, 115>>>>, FALSE)

\* A blue row of four cells whose first is " Criminal Cases ".
R_criminal == Row(<<<<32, 67, 114, 105, 109, 105, 110, 97, 108, 32, 67, 97, 115, 101, 115, 32>>, <<>>, <<>>, <<>>>>, TRUE)

\* <tr><td>-</td></tr>
R_rule == Row(<<<<45>>>>, FALSE)

\* A row of th cells only.
R_nocells == Row(<<>>, FALSE)

\* Case rows: "1", "CC/1/2025 View", "A versus B", "Adv X" and " 2 ", "CC/2/2025", "C", "".
R_case1 == Row(<<<<49>>, <<67, 67, 47, 49, 47, 50, 48, 50, 53, 32, 86, 105, 101, 119>>, <<65, 32, 118, 101, 114, 115, 117, 115, 32, 66>>, <<65, 100, 118, 32, 88>>>>, FALSE)

R_case2 == Row(<<<<32, 50, 32>>, <<67, 67, 47, 50, 47, 50, 48, 50, 53>>, <<67>>, <<>>>>, FALSE)

\* The column titles: "Sr No", "Cases", "Party Name", "Advocate".
R_titles == Row(<<<<83, 114, 32, 78, 111>>, <<67, 97, 115, 101, 115>>, <<80, 97, 114, 116, 121, 32, 78, 97, 109, 101>>, <<65, 100, 118, 111, 99, 97, 116, 101>>>>, FALSE)

\* <tr><td> </td></tr>
R_blank == Row(<<<<32>>>>, FALSE)

RowKinds == {R_civil, R_criminal, R_rule, R_nocells, R_case1, R_case2, R_titles, R_blank}

\* The rows of all dispTables of a document, in document order.
Documents == UNION { [1..n -> RowKinds] : n \in 0..MaxRows }

\* tds[0].get_text(" ", strip=True) of a row with cells.
FirstText(row) == Strip(row.tds[1])

\* The texts a one-cell row is skipped for: "-", "hr", "HR".
SkipTexts == {<<45>>, <<104, 114>>, <<72, 82>>}

\* Lines 1767-1774: the row opens a section.
IsSectionRow(row) ==
    /\ Len(row.tds) > 0
    /\ Len(row.tds) = 1 \/ row.blue
    /\ FirstText(row) # <<>>
    /\ FirstText(row) \notin SkipTexts

\* str.isdigit() on an ASCII string.
IsDigitStr(s) == s # <<>> /\ \A i \in 1..Len(s) : s[i] \in Digits

\* Line 1777: the row is a case row (reached only when it opened no section).
IsCaseRow(row) ==
    /\ ~IsSectionRow(row)
    /\ Len(row.tds) >= 4
    /\ IsDigitStr(FirstText(row))

\* str.replace(pat, "")
RECURSIVE RemoveAll(_, _)
RemoveAll(s, pat) ==
    IF Len(s) < Len(pat) THEN s
    ELSE IF SubSeq(s, 1, Len(pat)) = pat THEN RemoveAll(StrFrom(s, Len(pat) + 1), pat)
    ELSE <<s[1]>> \o RemoveAll(StrFrom(s, 2), pat)

\* \w of the re module on ASCII text.
IsWordChar(c) == IsAlpha(c) \/ IsDigit(c) \/ c = 95

\* r"\bversus\b" with re.I matches s at position i (line 1785).
VersusAt(s, i) ==
    /\ i >= 1
    /\ i + 5 <= Len(s)
    /\ Lower(SubSeq(s, i, i + 5)) = <<118, 101, 114, 115, 117, 115>>
    /\ (i = 1 \/ ~IsWordChar(s[i - 1]))
    /\ (i + 6 > Len(s) \/ ~IsWordChar(s[i + 6]))

\* The places of s, from position `from` on, where the pattern matches.
VersusPlaces(s, from) == { i \in from..Len(s) : VersusAt(s, i) }

\* re.split(r"\bversus\b", s, flags=re.I) from position `from` on: the
\* text up to each match, left to right, and the text after the last one.
RECURSIVE ReSplit(_, _)
ReSplit(s, from) ==
    LET at == VersusPlaces(s, from)
    IN  IF at = {} THEN <<StrFrom(s, from)>>
        ELSE LET i == Min(at)
             IN  <<SubSeq(s, from, i - 1)>> \o ReSplit(s, i + 6)

\* Lines 1783-1796: party_for and party_against of a party cell; the two
\* parts are taken only when the split gives exactly two.
SplitParties(party_raw) ==
    LET parts == ReSplit(party_raw, 1)
    IN  IF Len(parts) = 2
        THEN [party_for |-> Strip(parts[1]), party_against |-> Strip(parts[2])]
        ELSE [party_for |-> Strip(party_raw), party_against |-> <<>>]

\* Lines 1778-1819: the case of a case row, with its number, its case
\* number, its parties and the raw texts of its party and advocate cells.
CaseOf(row) ==
    [sr_no |-> FirstText(row),
     case_no |-> Strip(RemoveAll(Strip(row.tds[2]), <<86, 105, 101, 119>>)),
     party_for |-> SplitParties(row.tds[3]).party_for,
     party_against |-> SplitParties(row.tds[3]).party_against,
     party_raw |-> Strip(row.tds[3]),
     advocate_raw |-> Strip(row.tds[4])]

\* flush_section with the emptiness test dropped.
Flushed_KeepEmpty(name, cases, sections) ==
    IF name # PyNone /\ name # <<>>
    THEN Append(sections, [section_name |-> name, cases |-> cases])
    ELSE sections

\* flush_section (lines 1747-1757): all_sections after the flush.
Flushed(name, cases, sections) ==
    IF name # PyNone /\ name # <<>> /\ cases # <<>>
    THEN Append(sections, [section_name |-> name, cases |-> cases])
    ELSE sections

ClInit ==
    /\ p_pc = "rows"
    /\ p_in \in Documents
    /\ p_out = <<>>
    /\ p_fetch = "none"
    /\ p_i = 1
    /\ section_name = PyNone
    /\ current_cases = <<>>
    /\ all_sections = <<>>
    /\ RIdle
    /\ CIdle
    /\ FStart("none")

ClFrame == UNCHANGED <<p_in, p_out, p_pc, p_fetch, rvars, fvars, cvars>>

\* The loop is at a row.
AtRow == p_pc = "rows" /\ p_i <= Len(p_in)

\* A section title row: flush the pending section and open the new one.
ClSection ==
    /\ AtRow
    /\ IsSectionRow(p_in[p_i])
    /\ all_sections' = Flushed(section_name, current_cases, all_sections)
    /\ section_name' = FirstText(p_in[p_i])
    /\ current_cases' = <<>>
    /\ p_i' = p_i + 1
    /\ ClFrame

\* A case row: append its case to the pending cases.
ClCase ==
    /\ AtRow
    /\ IsCaseRow(p_in[p_i])
    /\ current_cases' = Append(current_cases, CaseOf(p_in[p_i]))
    /\ p_i' = p_i + 1
    /\ UNCHANGED <<section_name, all_sections>>
    /\ ClFrame

\* Any other row is passed over.
ClSkip ==
    /\ AtRow
    /\ ~IsSectionRow(p_in[p_i])
    /\ ~IsCaseRow(p_in[p_i])
    /\ p_i' = p_i + 1
    /\ UNCHANGED <<section_name, current_cases, all_sections>>
    /\ ClFrame

\* After the last row: flush the pending section and return the sections.
ClReturn ==
    /\ p_pc = "rows"
    /\ p_i > Len(p_in)
    /\ all_sections' = Flushed(section_name, current_cases, all_sections)
    /\ section_name' = PyNone
    /\ current_cases' = <<>>
    /\ p_out' = all_sections'
    /\ p_pc' = "done"
    /\ UNCHANGED <<p_in, p_i, p_fetch, rvars, fvars, cvars>>

ClNext == ClSection \/ ClCase \/ ClSkip \/ ClReturn

\* parse_cause_list_html alone, on every document drawn.
SpecCauseList == ClInit /\ [][ClNext]_vars

(***************************************************************************)
(* The parties of a case row (functions.py:1783-1796)                      *)
(***************************************************************************)

\* The most words of a party cell drawn.
MaxWords == 3

\* Words of a party cell: names, the token in three casings, and two words
\* that hold its letters without being it.
PartyWords == {<<65>>, <<66>>, <<118, 101, 114, 115, 117, 115>>, <<86, 69, 82, 83, 85, 83>>, <<86, 101, 114, 115, 117, 115>>, <<67, 111, 110, 118, 101, 114, 115, 117, 115>>, <<118, 101, 114, 115, 117, 115, 95, 120>>}

RECURSIVE JoinWords(_)
JoinWords(ws) ==
    IF ws = <<>> THEN <<>>
    ELSE IF Len(ws) = 1 THEN ws[1]
    ELSE ws[1] \o <<32>> \o JoinWords(Tail(ws))

\* The party cells drawn: up to MaxWords words separated by spaces.
PartyTexts == { JoinWords(ws) : ws \in UNION { [1..n -> PartyWords] : n \in 0..MaxWords } }

PtInit ==
    /\ p_pc = "call"
    /\ p_in \in PartyTexts
    /\ p_out = <<>>
    /\ PLocalsIdle
    /\ RIdle
    /\ CIdle
    /\ FStart("none")

\* The split of one party cell (lines 1783-1796).
PtCall ==
    /\ p_pc = "call"
    /\ p_out' = SplitParties(p_in)
    /\ p_pc' = "done"
    /\ UNCHANGED <<p_in, plocals, rvars, fvars, cvars>>

PtNext == PtCall

\* The party split alone, on every party cell drawn.
SpecParty == PtInit /\ [][PtNext]_vars

(***************************************************************************)
(* parse_eCourts_response as a whole (functions.py:451-476, 479-618)        *)
(***************************************************************************)

\* The most elements of a document body drawn, and the most rows of a
\* history table drawn.
MaxNodes == 2

MaxHistRows == 3

\* An element of the document body: a table of one row with the texts of
\* its cells, or (row = FALSE) an element holding one text.
Element(row, texts) == [row |-> row, texts |-> texts]

\* <tr><td>CNR Number</td><td> MHPU010012342025 </td></tr>
E_cnr == Element(TRUE, <<<<67, 78, 82, 32, 78, 117, 109, 98, 101, 114>>, <<32, 77, 72, 80, 85, 48, 49, 32>>>>)

\* The label in lower case: <tr><td>case type</td><td>Civil</td></tr>
E_type == Element(TRUE, <<<<99, 97, 115, 101, 32, 116, 121, 112, 101>>, <<67, 105, 118, 105, 108>>>>)

\* The label in the last cell of its row.
E_next == Element(TRUE, <<<<78, 101, 120, 116, 32, 72, 101, 97, 114, 105, 110, 103, 32, 68, 97, 116, 101>>>>)

\* Two labels in one row.
E_dates == Element(TRUE, <<<<70, 105, 108, 105, 110, 103, 32, 68, 97, 116, 101>>, <<48, 49, 45, 48, 51, 45, 50, 48, 50, 53>>, <<70, 105, 114, 115, 116, 32, 72, 101, 97, 114, 105, 110, 103, 32, 68, 97, 116, 101>>, <<49, 115, 116, 32, 77, 97, 114, 99, 104, 32, 50, 48, 50, 53>>>>)

E_court == Element(TRUE, <<<<67, 111, 117, 114, 116, 32, 78, 117, 109, 98, 101, 114, 32, 97, 110, 100, 32, 74, 117, 100, 103, 101>>, <<49, 45, 67, 73, 86, 73, 76, 32, 74, 85, 68, 71, 69, 32, 80, 85, 78, 69>>>>)

\* <p>Case Stage</p> and <p>Evidence</p>, outside any row.
E_stage == Element(FALSE, <<<<67, 97, 115, 101, 32, 83, 116, 97, 103, 101>>>>)

E_evidence == Element(FALSE, <<<<69, 118, 105, 100, 101, 110, 99, 101, 32>>>>)

ElementKinds == {E_cnr, E_type, E_next, E_dates, E_court, E_stage, E_evidence}

\* The bodies drawn.
Bodies == UNION { [1..n -> ElementKinds] : n \in 0..MaxNodes }

\* The href values of the anchors of a document, in order.
AnchorLists == { <<>>, <<<<47, 111, 47, 98, 46, 104, 116, 109, 108>>>>, <<<<47, 111, 47, 98, 46, 104, 116, 109, 108>>, <<104, 116, 116, 112, 58, 47, 47, 104, 47, 111, 47, 97, 46, 80, 68, 70>>>> }

\* Rows of a history table: no cell, 1, 2, 3, 4 and 5 cells, and the row of titles.
HistRowKinds ==
    { <<>>, <<<<74, 49>>>>, <<<<74, 49>>, <<48, 49, 45, 48, 50, 45, 50, 48, 50, 53>>>>, <<<<74, 49>>, <<48, 49, 45, 48, 50, 45, 50, 48, 50, 53>>, <<32, 48, 49, 45, 48, 51, 45, 50, 48, 50, 53, 32>>>>,
      <<<<74, 50>>, <<48, 49, 45, 48, 51, 45, 50, 48, 50, 53>>, <<48, 51, 45, 48, 52, 45, 50, 48, 50, 53>>, <<69, 118, 105, 100, 101, 110, 99, 101>>>>,
      <<<<74, 50>>, <<48, 49, 45, 48, 51, 45, 50, 48, 50, 53>>, <<48, 51, 45, 48, 52, 45, 50, 48, 50, 53>>, <<69, 118, 105, 100, 101, 110, 99, 101>>, <<120>>>>,
      <<<<74, 117, 100, 103, 101>>, <<66, 117, 115, 105, 110, 101, 115, 115, 32, 111, 110, 32, 68, 97, 116, 101>>, <<72, 101, 97, 114, 105, 110, 103, 32, 68, 97, 116, 101>>, <<80, 117, 114, 112, 111, 115, 101>>>> }

\* soup.find found no such table.
NoTable == [found |-> FALSE, rows |-> <<>>]

\* The table found, as the cell texts of its rows.
Table(rows) == [found |-> TRUE, rows |-> rows]

\* The history tables drawn: none, or up to MaxHistRows rows.
HistoryTables ==
    {NoTable} \cup { Table(rows) : rows \in UNION { [1..n -> HistRowKinds] : n \in 0..MaxHistRows } }

\* A history table of two rows, of 4 and of 3 cells.
H_short == Table(<< <<<<74, 50>>, <<48, 49, 45, 48, 51, 45, 50, 48, 50, 53>>, <<48, 51, 45, 48, 52, 45, 50, 48, 50, 53>>, <<69, 118, 105, 100, 101, 110, 99, 101>>>>, <<<<74, 49>>, <<48, 49, 45, 48, 50, 45, 50, 48, 50, 53>>, <<32, 48, 49, 45, 48, 51, 45, 50, 48, 50, 53, 32>>>> >>)

\* The tables after an "Interim Orders" heading: none, or an order row and a row without td cells.
OrderTables == { NoTable, Table(<< <<<<49>>, <<32, 48, 49, 45, 48, 51, 45, 50, 48, 50, 53, 32>>, <<79, 114, 100, 101, 114>>>>, <<>> >>) }

\* re.search(re.escape(label), text, re.I), case sensitive.
TextMatches_CaseSensitive(text, label) == Contains(text, label)

\* re.search(re.escape(label), text, re.I)
TextMatches(text, label) == Contains(Lower(text), Lower(label))

\* x.get_text(" ", strip=True) of an element: its non-empty stripped texts joined by " ".
RECURSIVE JoinTexts(_)
JoinTexts(texts) ==
    IF texts = <<>> THEN <<>>
    ELSE LET h == Strip(texts[1])
             r == JoinTexts(SubSeq(texts, 2, Len(texts)))
         IN  IF h = <<>> THEN r ELSE IF r = <<>> THEN h ELSE h \o <<32>> \o r

\* The places <<k, j>> of the text nodes that match the label.
LabelHits(body, label) ==
    { kj \in (1..Len(body)) \X (1..4) :
        /\ kj[2] <= Len(body[kj[1]].texts)
        /\ TextMatches(body[kj[1]].texts[kj[2]], label) }

\* soup.find(text=...): the first place in document order.
FirstHit(hits) ==
    CHOOSE kj \in hits :
        \A o \in hits : kj[1] < o[1] \/ (kj[1] = o[1] /\ kj[2] <= o[2])

\* find_label_value (lines 451-476)
find_label_value(body, label) ==
    IF LabelHits(body, label) = {} THEN PyNone
    ELSE LET kj == FirstHit(LabelHits(body, label))
             e  == body[kj[1]]
         IN  IF e.row
             THEN (IF kj[2] + 1 <= Len(e.texts) THEN Strip(e.texts[kj[2] + 1]) ELSE PyNone)
             ELSE (IF kj[1] + 1 <= Len(body) THEN JoinTexts(body[kj[1] + 1].texts) ELSE PyNone)

\* Python's `a or b` on Optional[str].
PyOr(a, b) == IF a # PyNone /\ a # <<>> THEN a ELSE b

\* s.endswith(suffix)
EndsWith(s, suffix) ==
    Len(s) >= Len(suffix) /\ SubSeq(s, Len(s) - Len(suffix) + 1, Len(s)) = suffix

\* s.split("/")[-1]
RECURSIVE LastSegment(_)
LastSegment(s) ==
    IF s = <<>> \/ s[Len(s)] = 47 THEN <<>>
    ELSE LastSegment(SubSeq(s, 1, Len(s) - 1)) \o <<s[Len(s)]>>

\* soup.find("a", href=lambda h: h and h.lower().endswith(".pdf")): the href, or PyNone.
PdfHref(anchors) ==
    LET hits == { i \in 1..Len(anchors) : EndsWith(Lower(anchors[i]), <<46, 112, 100, 102>>) }
    IN  IF hits = {} THEN PyNone ELSE anchors[Min(hits)]

\* str(Path("outputs/cnr") / pdf_name)
PdfPath(href) == <<111, 117, 116, 112, 117, 116, 115, 47, 99, 110, 114, 47>> \o LastSegment(href)

\* What can become of the request for the PDF: written, or requests.get
\* raises, raise_for_status raises, write_bytes raises.
FetchOutcomes == {"ok", "get", "status", "write"}

\* out["pdf_path"] after the try block (lines 535-543), keeping the path on a failure.
PdfPathAfter_KeepOnFailure(href, outcome) == PdfPath(href)

\* out["pdf_path"] after the try block (lines 535-543).
PdfPathAfter(href, outcome) == IF outcome = "ok" THEN PdfPath(href) ELSE PyNone

\* Lines 546-561 with the rows of three cells skipped as well.
CaseHistory_FourCells(rows) ==
    LET Long(r) == Len(r) >= 4
        kept == SelectSeq(rows, Long)
    IN  [i \in 1..Len(kept) |->
            [judge |-> Strip(kept[i][1]), business_on_date |-> Strip(kept[i][2]),
             hearing_date |-> Strip(kept[i][3]), purpose |-> Strip(kept[i][4])]]

\* Lines 546-561: case_history.
RECURSIVE CaseHistory(_)
CaseHistory(rows) ==
    IF rows = <<>> THEN <<>>
    ELSE LET cols == [i \in 1..Len(rows[1]) |-> Strip(rows[1][i])]
         IN  (IF Len(cols) >= 3
              THEN <<[judge |-> cols[1], business_on_date |-> cols[2], hearing_date |-> cols[3],
                      purpose |-> IF Len(cols) > 3 THEN cols[4] ELSE <<>>]>>
              ELSE <<>>)
             \o CaseHistory(SubSeq(rows, 2, Len(rows)))

\* Lines 564-572: interim_orders.
RECURSIVE InterimOrders(_)
InterimOrders(rows) ==
    IF rows = <<>> THEN <<>>
    ELSE (IF rows[1] # <<>> THEN <<[i \in 1..Len(rows[1]) |-> Strip(rows[1][i])]>> ELSE <<>>)
         \o InterimOrders(SubSeq(rows, 2, Len(rows)))

\* The keys whose values come from labels.
LabelFields ==
    {"cnr", "case_type", "filing_date", "registration_number", "first_hearing_date",
     "next_hearing_date", "case_stage", "court_name"}

\* Lines 485-527: out after the label fields and the court-name fields.
BasicFields(body) ==
    LET court_name == PyOr(find_label_value(body, <<67, 111, 117, 114, 116, 32, 78, 117, 109, 98, 101, 114, 32, 97, 110, 100, 32, 74, 117, 100, 103, 101>>),
                           find_label_value(body, <<67, 111, 117, 114, 116>>))
        c == IF court_name # PyNone /\ court_name # <<>>
             THEN ParseCourtName(court_name)
             ELSE [serial |-> PyNone, clean |-> PyNone, judge |-> PyNone]
    IN  [listed |-> FALSE,
         cnr |-> PyOr(find_label_value(body, <<67, 78, 82, 32, 78, 117, 109, 98, 101, 114>>), find_label_value(body, <<67, 78, 82>>)),
         case_type |-> find_label_value(body, <<67, 97, 115, 101, 32, 84, 121, 112, 101>>),
         filing_date |-> find_label_value(body, <<70, 105, 108, 105, 110, 103, 32, 68, 97, 116, 101>>),
         registration_number |-> find_label_value(body, <<82, 101, 103, 105, 115, 116, 114, 97, 116, 105, 111, 110, 32, 78, 117, 109, 98, 101, 114>>),
         first_hearing_date |-> find_label_value(body, <<70, 105, 114, 115, 116, 32, 72, 101, 97, 114, 105, 110, 103, 32, 68, 97, 116, 101>>),
         next_hearing_date |-> find_label_value(body, <<78, 101, 120, 116, 32, 72, 101, 97, 114, 105, 110, 103, 32, 68, 97, 116, 101>>),
         case_stage |-> find_label_value(body, <<67, 97, 115, 101, 32, 83, 116, 97, 103, 101>>),
         court_name |-> court_name,
         serial_number |-> c.serial,
         court_name_clean |-> c.clean,
         judge_name_and_court_address |-> c.judge]

\* The keys of out that hold strings or None, tidied at lines 606-611.
StringKeys(out) ==
    { k \in DOMAIN out : k \notin {"listed", "case_history", "interim_orders", "next_hearing_date_parsed"} }

\* Lines 545-618: out at return, from out after the PDF step.
Finished(out, doc) ==
    LET h == HearingClass(out.next_hearing_date, out.first_hearing_date, doc.today)
        d == ChosenDate(parse_date_try(out.next_hearing_date), parse_date_try(out.first_hearing_date))
        full == [case_history |-> IF doc.history.found THEN CaseHistory(doc.history.rows) ELSE <<>>,
                 interim_orders |-> IF doc.orders.found THEN InterimOrders(doc.orders.rows) ELSE <<>>,
                 listed |-> h.listed,
                 listed_when |-> h.listed_when]
                @@ (IF h.listed THEN [next_hearing_date_parsed |-> d] ELSE <<>>)
                @@ out
    IN  [k \in DOMAIN full |-> IF k \in StringKeys(full) /\ k # "listed_when" THEN Tidy(full[k]) ELSE full[k]]

\* The days the parser runs on here.
CdTodays == {Date(2025, 2, 28), Date(2025, 3, 1)}

\* A response document and the day of the call.
CaseDocs(histories) ==
    [body : Bodies, anchors : AnchorLists, history : histories, orders : OrderTables,
     today : CdTodays]

CdStart ==
    /\ p_pc = "fields"
    /\ p_out = <<>>
    /\ PLocalsIdle
    /\ RIdle
    /\ CIdle
    /\ FStart("none")

CdInit == CdStart /\ p_in \in CaseDocs({NoTable, H_short})

CdFrame == UNCHANGED <<p_in, p_i, section_name, current_cases, all_sections, rvars, fvars, cvars>>

\* Lines 485-527: the label fields and the fields derived from the court name.
CdFields ==
    /\ p_pc = "fields"
    /\ p_out' = BasicFields(p_in.body)
    /\ p_pc' = "pdf"
    /\ UNCHANGED p_fetch
    /\ CdFrame

\* Lines 529-531 without a PDF anchor: pdf_url is None and nothing is requested.
CdNoPdf ==
    /\ p_pc = "pdf"
    /\ PdfHref(p_in.anchors) = PyNone
    /\ p_out' = [pdf_url |-> PyNone] @@ p_out
    /\ p_pc' = "rest"
    /\ UNCHANGED p_fetch
    /\ CdFrame

\* Lines 529-543 with a PDF anchor: the target is requested and written, or
\* one of the three calls raises inside the try block.
CdPdf ==
    /\ p_pc = "pdf"
    /\ PdfHref(p_in.anchors) # PyNone
    /\ \E outcome \in FetchOutcomes :
        /\ p_fetch' = outcome
        /\ p_out' = [pdf_url |-> PdfHref(p_in.anchors),
                     pdf_path |-> PdfPathAfter(PdfHref(p_in.anchors), outcome)] @@ p_out
    /\ p_pc' = "rest"
    /\ CdFrame

\* Lines 545-618: history, orders, listing, tidy, return.
CdReturn ==
    /\ p_pc = "rest"
    /\ p_out' = Finished(p_out, p_in)
    /\ p_pc' = "done"
    /\ UNCHANGED p_fetch
    /\ CdFrame

CdNext == CdFields \/ CdNoPdf \/ CdPdf \/ CdReturn

\* parse_eCourts_response on every body drawn, with or without a PDF anchor.
SpecCaseDetail == CdInit /\ [][CdNext]_vars

HistInit ==
    /\ CdStart
    /\ p_in \in { d \in CaseDocs(HistoryTables) :
                    d.body \in {<<>>, <<E_dates>>} /\ d.orders = NoTable /\ d.today = Date(2025, 2, 28) }

\* parse_eCourts_response on every history table drawn.
SpecHistory == HistInit /\ [][CdNext]_vars

(***************************************************************************)
(* Properties of the resolver (checked under SpecResolve)                  *)
(***************************************************************************)

\* The positions of the options whose label equals the input ignoring case.
ExactLabelAt == { i \in 1..Len(r_opts) : Lower(r_opts[i].text) = Lower(r_input) }

\* The positions of the options whose code equals the input.
CodeAt == { i \in 1..Len(r_opts) : r_opts[i].value = r_input }

\* C1 as stated: whenever exactly one option's label equals the input
\* ignoring case, the resolver returns that option, whatever else matches
\* (by code, by substring or by fuzzy similarity).
C1_LabelAlwaysWins ==
    (r_pc = "done" /\ r_input # PyNone /\ Cardinality(ExactLabelAt) = 1)
        => \A i \in ExactLabelAt : r_out.opt = r_opts[i]

\* C1 amended: for a non-empty input such that exactly one option's label
\* equals it ignoring case and no other option's code equals it, the resolver
\* returns that option without prompting, whatever options match by
\* substring or by fuzzy similarity; an option whose code equals the input is
\* decided first.
C1_LabelWinsOverSubstringAndFuzzy ==
    (/\ r_pc = "done"
     /\ r_input # PyNone
     /\ r_input # <<>>
     /\ Cardinality(ExactLabelAt) = 1
     /\ CodeAt \subseteq ExactLabelAt)
        => /\ \A i \in ExactLabelAt : r_out.opt = r_opts[i]
           /\ ~r_out.prompted

\* C1 witness: the label step decided, with a second option that also
\* matches the input as a substring.
C1_Witness ==
    /\ r_pc = "done"
    /\ r_input # PyNone
    /\ r_input # <<>>
    /\ Cardinality(ExactLabelAt) = 1
    /\ CodeAt = {}
    /\ Len(SubstringCandidates(r_opts, Normalised(r_input))) > 1
    /\ r_out.how = "label"
    /\ \A i \in ExactLabelAt : r_out.opt = r_opts[i]

\* C2 as stated: when the substring step finds more than one candidate, the
\* resolver returns only a candidate the operator picked by its number, or
\* reports the ambiguity by returning no option; it never picks one itself.
C2_NeverPicksSilently ==
    (r_pc = "done" /\ r_out.prompted)
        => (r_out.how = "picked" \/ r_out.opt = NotFound)

\* C3 as stated: an empty input and an input of blanks only yield NotFound,
\* with no prompt.
C3_BlankInputNotFound ==
    (r_pc = "done" /\ r_input # PyNone /\ Strip(r_input) = <<>>)
        => (r_out.opt = NotFound /\ ~r_out.prompted)

(***************************************************************************)
(* Properties of the cascade (checked under Spec)                          *)
(***************************************************************************)

\* The call is one of the two cascades over HTTP.
InCascade == fn \in {"download", "app"}

\* C4 as stated: every resolved level below the state was resolved against a
\* list read from a page that was fetched after all its upstream levels were
\* resolved, by a request that carried all their codes.
C4_ListsFetchedAfterUpstream ==
    InCascade =>
        \A l \in {"district", "complex", "court"} :
            sel[l] # NotFound =>
                /\ Upstream(l) \subseteq FetchCommitted(usedProv[l])
                /\ Upstream(l) \subseteq FetchSent(usedProv[l])

\* C5 as stated: once the state POST was made, the complex and the court are
\* not resolved against a list read from the landing page, and once the
\* complex POST was made the court is not resolved against a list read from
\* an earlier page, whether or not the re-fetch gave options.
C5_StaleListsNeverUsed ==
    InCascade =>
        /\ sel["complex"] # NotFound => usedProv["complex"] # "landing"
        /\ sel["court"] # NotFound => usedProv["court"] = "r3"

\* C6 as stated: a call that failed to resolve a level holds an error that
\* names the level and the input and carries at most 40 of the labels that
\* were available, and it fetched no captcha, posted nothing and wrote no file.
C6_ResolutionErrorContract ==
    (InCascade /\ pc = "failed") =>
        /\ err.level \in Levels
        /\ err.input = inp[err.level]
        /\ err.hasSample
        /\ Len(err.sample) <= 40
        /\ err.sample = SampleLabels(lists[err.level], Len(err.sample))
        /\ capCount = 0
        /\ posts = <<>>
        /\ results = <<>>
        /\ files = {}

(***************************************************************************)
(* Properties of the submission loops (checked under Spec)                 *)
(***************************************************************************)

\* C7 as stated: a captcha artifact was fetched on the session before the
\* first submission POST and between every two consecutive submission POSTs.
C7_FreshCaptchaBeforeEveryPost ==
    InCascade =>
        \A i \in 1..Len(posts) :
            posts[i].cap > (IF i = 1 THEN 0 ELSE posts[i - 1].cap)

\* C8 as stated: no two submission POSTs of a call carry a captcha text that
\* came from the same human input.
C8_CaptchaTextNeverReused ==
    InCascade =>
        \A i, j \in 1..Len(posts) :
            (i < j /\ posts[i].text # 0) => posts[i].text # posts[j].text

\* The attempt loop of the current discriminator is over.
LoopOver == InCascade /\ pc \in {"record", "return"}

\* C9 as stated: an attempt loop all of whose responses were transient
\* (network error or blocking banner) ends after exactly max_retries POSTs
\* with no saved result.
C9_TransientExhaustsRetries ==
    (LoopOver /\ allTransient) => (attempt = max_retries /\ saved = "none")

(***************************************************************************)
(* Termination (checked under Spec)                                        *)
(***************************************************************************)

\* The most steps a call of entry point f with m retries can take: the
\* cascade and, per discriminator, the captcha, m attempts and the record;
\* the captcha and the search of a CNR query; the tries of the captcha
\* download; the three court waits and the two
\* discriminators of the Selenium download; the polls of the three waits and
\* of the five court tries of the Selenium preparation.
StepBound(f, m) ==
    CASE f = "download" -> 7 + 2 * (m + 2)
      [] f = "app"      -> 7 + 2 + 2 * (m + 2)
      [] f = "cnr"      -> 3
      [] f = "captcha"  -> 1 + m
      [] f = "selenium" -> 2 + SeCourtAttempts + 1 + 2
      [] f = "selprep"  -> 1 + 2 * (MaxWaitTicks + 2)
                             + SpCourtTries * (MaxWaitTicks + 2) + 2
      [] OTHER          -> 0

\* C10: every call ends: it takes at most StepBound steps, a bound that
\* depends on the entry point and on max_retries only, and until it has
\* returned or raised it always has a step to take.
C10_EveryCallTerminates ==
    /\ steps <= StepBound(fn, max_retries)
    /\ Ended \/ ENABLED Next

\* C10 witness: a download that used up its retries for both discriminators
\* has ended, after as many steps as the bound allows.
C10_Witness ==
    /\ pc = "done"
    /\ fn = "download"
    /\ max_retries = MaxRetries
    /\ Len(posts) = 2 * MaxRetries
    /\ steps = StepBound(fn, max_retries)

\* C10, as a property of the fair behaviours: every call eventually ends.
EventuallyEnded == <>Ended

(***************************************************************************)
(* Properties of the response classification (checked under Spec)          *)
(***************************************************************************)

\* The latest POST of the loop running got a response with a 2xx status.
Answered == last.posted /\ last.resp.net

\* The loop running has ended without a retry pending.
LoopLeft == pc \in {"record", "return"}

\* C11: a response whose JSON body holds a recognized pdf field with a
\* non-empty URL is taken by the JSON step, the pdf path is the result and
\* the loop ends, also when the body holds a blocking-banner substring.
C11_JsonPdfBeforeBanner ==
    (InCascade /\ Answered /\ last.resp.pdfField = "url") =>
        /\ last.class = "jsonpdf"
        /\ saved = "pdf"
        /\ LoopLeft

\* C11 witness: a JSON response with a pdf URL and a banner substring was
\* taken as a pdf result by submit_causelist_attempt.
C11_Witness ==
    /\ fn = "app"
    /\ Answered
    /\ last.resp.pdfField = "url"
    /\ last.resp.banner
    /\ last.class = "jsonpdf"
    /\ saved = "pdf"
    /\ pc = "return"

\* C12 as stated: a response without a JSON pdf URL whose body holds a
\* blocking-banner substring is classified as blocked, whatever anchors and
\* tables it holds, and nothing is saved for it.
C12_BannerNeverSaved ==
    (InCascade /\ Answered /\ ~JsonPdf(last.resp) /\ last.resp.banner) =>
        /\ last.class = "banner"
        /\ saved = "none"

\* A response none of the classifier's rules recognizes.
Unparseable(resp) ==
    resp.net /\ resp.pdfField = "absent" /\ ~resp.banner /\ ~resp.anchor /\ ~resp.tables

\* C13 as stated: a response with no JSON pdf field, no banner, no pdf
\* anchor and no table is never recorded as a saved result.
C13_UnparseableNeverSaved ==
    (InCascade /\ last.posted /\ Unparseable(last.resp)) => saved = "none"

\* A response the classifier is to take as a success: a JSON pdf URL, or,
\* without a banner, a pdf anchor or a table.
IsSuccess(resp) ==
    resp.net /\ (JsonPdf(resp) \/ (~resp.banner /\ (resp.anchor \/ resp.tables)))

\* C14 as stated: once a response of the loop running was a success, no
\* further submission POST is made in that loop.
C14_NoPostAfterSuccess ==
    [][(InCascade /\ last.posted /\ IsSuccess(last.resp)) => posts' = posts]_vars

(***************************************************************************)
(* Properties of the captcha fetch (checked under Spec)                    *)
(***************************************************************************)

\* C15 as stated: no search or submission POST carries a captcha text that
\* the operator was asked for after the captcha artifact could not be
\* fetched (the entry points take no best-effort option).
C15_NoPostAfterFailedCaptchaFetch ==
    \A i \in 1..Len(posts) : posts[i].text # 0 => posts[i].read # 0

(***************************************************************************)
(* Properties of concurrent queries (checked under SpecConcurrent)         *)
(***************************************************************************)

\* C16 as stated: in every interleaving each query's operator is shown the
\* captcha its own session fetched, its input() is answered by its own
\* provider, and once both queries are over builtins.input is the original.
C16_QueriesShareNothing ==
    /\ \A q \in Queries : q_pc[q] \in {"exit", "done"} => (q_seen[q] = q /\ q_asked[q] = q)
    /\ (\A q \in Queries : q_pc[q] = "done") => builtinsInput = 0

(***************************************************************************)
(* Properties of the caller's payload template (checked under Spec)        *)
(***************************************************************************)

\* C17: from the moment prepare_causelist_request built it, through every
\* submit_causelist_attempt and after each has returned, the caller's
\* payload_template holds the keys and values it was built with: no cicri
\* and no captcha field is added to it.
C17_TemplateNotMutated ==
    (fn = "app" /\ heap # <<>>) =>
        /\ heap[1] = Template
        /\ "cicri" \notin DOMAIN heap[1]
        /\ "cause_list_captcha_code" \notin DOMAIN heap[1]

\* C17 witness: both discriminators were submitted, with a retry, and the
\* calls have returned.
C17_Witness ==
    /\ fn = "app"
    /\ pc = "done"
    /\ Len(results) = 2
    /\ Len(posts) > 2
    /\ heap = <<Template>>

\* What the court-name fields are said to be: the position of the first
\* "JUDGE" after the serial prefix splits the rest in two.
FirstJudge(s) ==
    LET ks == { k \in 1..Len(s) : JudgeAt(s, k) }
    IN  IF ks = {} THEN 0 ELSE Min(ks)

\* C18: for every court name that contains "JUDGE", serial_number is the
\* leading digits before the first hyphen (None without such a prefix),
\* court_name_clean is the whole text between the hyphen (or the start) and
\* "JUDGE", title-cased, and judge_and_address is everything from "JUDGE"
\* onward, trimmed.
C18_CourtNameFields ==
    (p_pc = "done" /\ FirstJudge(SerialMatch(Strip(p_in)).rest) > 0) =>
        LET m == SerialMatch(Strip(p_in))
            k == FirstJudge(m.rest)
        IN  /\ p_out.serial = m.serial
            /\ p_out.clean = Title(Strip(SubSeq(m.rest, 1, k - 1)))
            /\ p_out.judge = Strip(StrFrom(m.rest, k))

\* The claim's example is parsed as stated: "1", "Civil",
\* "JUDGE J.D. AND J.M.F.C. PMC PUNE".
ExampleCourtNameParsed ==
    (p_pc = "done" /\ p_in = T_example) =>
        /\ p_out.serial = <<49>>
        /\ p_out.clean = <<67, 105, 118, 105, 108>>
        /\ p_out.judge = StrFrom(T_example, 9)

\* The number of days from 1 January of year 1 to the date.
DayNumber(t) ==
    LET y == t[1] - 1
        before == [m \in 1..12 |-> IF m = 1 THEN 0 ELSE 31 * (m - 1)
                                   - (IF m > 2 THEN (IF IsLeap(t[1]) THEN 2 ELSE 3) ELSE 0)
                                   - (IF m > 4 THEN 1 ELSE 0) - (IF m > 6 THEN 1 ELSE 0)
                                   - (IF m > 9 THEN 1 ELSE 0) - (IF m > 11 THEN 1 ELSE 0)]
    IN  365 * y + (y \div 4) - (y \div 100) + (y \div 400) + before[t[2]] + t[3]

\* The day-first ways of writing a date.
DayFirstFormats == DateFormats \ {"iso"}

\* C19: the hearing date is the one parsed from next_hearing_date, or from
\* first_hearing_date when the former is absent or does not parse;
\* listed_when is today when that date is the current date, tomorrow when it
\* is one day ahead, other for any other date and none when no date parses;
\* listed is true exactly when a date was parsed, that is exactly when
\* listed_when is not none; a date written day-first, with or without an
\* ordinal suffix, is read as that date.
C19_HearingDateClass ==
    p_pc = "done" =>
        LET n == parse_date_try(p_in.next)
            f == parse_date_try(p_in.first)
            d == IF n # PyNone THEN n ELSE f
        IN  /\ p_out.listed <=> d # PyNone
            /\ p_out.listed <=> p_out.listed_when # "none"
            /\ d # PyNone =>
                 p_out.listed_when =
                    (IF DayNumber(d) = DayNumber(p_in.today) THEN "today"
                     ELSE IF DayNumber(d) = DayNumber(p_in.today) + 1 THEN "tomorrow"
                     ELSE "other")
            /\ \A fm \in DayFirstFormats, t \in Dates :
                 p_in.next = FormatDate(fm, t) => d = t

\* next_hearing_date is "Not Listed", first_hearing_date is "1st March 2025"
\* and the parser runs on 28 February 2025: the date falls back to the first
\* hearing and is tomorrow across the end of the month.
C19_Witness ==
    /\ p_pc = "done"
    /\ p_in.next = <<78, 111, 116, 32, 76, 105, 115, 116, 101, 100>>
    /\ p_in.first = FormatDate("ordinal", Date(2025, 3, 1))
    /\ p_in.today = Date(2025, 2, 28)
    /\ p_out = [listed |-> TRUE, listed_when |-> "tomorrow"]

\* A date written year first is read with day and month exchanged when the
\* day is at most 12.
IsoReadDayFirst ==
    (p_pc = "done" /\ p_in.next = FormatDate("iso", Date(2025, 4, 3))) =>
        parse_date_try(p_in.next) = Date(2025, 3, 4)

\* The position of the first section title row of rows at or after i, or
\* Len(rows) + 1.
RECURSIVE NextTitle(_, _)
NextTitle(rows, i) ==
    IF i > Len(rows) \/ IsSectionRow(rows[i]) THEN i ELSE NextTitle(rows, i + 1)

\* The cases of the case rows of rows[from..to], in order.
RECURSIVE CasesBetween(_, _, _)
CasesBetween(rows, from, to) ==
    IF from > to THEN <<>>
    ELSE (IF IsCaseRow(rows[from]) THEN <<CaseOf(rows[from])>> ELSE <<>>)
         \o CasesBetween(rows, from + 1, to)

\* The sections a document holds from row i on: one per title row that has
\* a case row before the next title row or the end.
RECURSIVE SectionsFrom(_, _)
SectionsFrom(rows, i) ==
    LET h  == NextTitle(rows, i)
        e  == NextTitle(rows, h + 1)
        cs == CasesBetween(rows, h + 1, e - 1)
    IN  IF h > Len(rows) THEN <<>>
        ELSE (IF cs = <<>> THEN <<>>
              ELSE <<[section_name |-> FirstText(rows[h]), cases |-> cs]>>)
             \o SectionsFrom(rows, e)

\* C20: every section of the cause-list parser's output has at least one
\* case: a title row with no case row before the next title row or the end
\* of the rows gives no section, the pending section is flushed at the end,
\* and the title "Civil Cases", two case rows and a trailing title give
\* exactly one section "Civil Cases" with two cases.
C20_NoEmptySection ==
    /\ \A k \in 1..Len(all_sections) : Len(all_sections[k].cases) >= 1
    /\ p_pc = "done" =>
        /\ p_out = SectionsFrom(p_in, 1)
        /\ p_in = <<R_civil, R_case1, R_case2, R_criminal>> =>
             /\ Len(p_out) = 1
             /\ p_out[1].section_name = <<67, 105, 118, 105, 108, 32, 67, 97, 115, 101, 115>>
             /\ Len(p_out[1].cases) = 2

\* The parser has returned on "Civil Cases", two case rows and a trailing
\* title: one section with the cases 1 and 2.
C20_Witness ==
    /\ p_pc = "done"
    /\ p_in = <<R_civil, R_case1, R_case2, R_criminal>>
    /\ Len(p_out) = 1
    /\ p_out[1].section_name = <<67, 105, 118, 105, 108, 32, 67, 97, 115, 101, 115>>
    /\ p_out[1].cases = <<CaseOf(R_case1), CaseOf(R_case2)>>
    /\ p_out[1].cases[1].case_no = <<67, 67, 47, 49, 47, 50, 48, 50, 53>>
    /\ p_out[1].cases[2].sr_no = <<50>>

\* The labels each label field is looked up by, the preferred one first.
FieldLabels ==
    [cnr |-> <<<<67, 78, 82, 32, 78, 117, 109, 98, 101, 114>>, <<67, 78, 82>>>>,
     case_type |-> <<<<67, 97, 115, 101, 32, 84, 121, 112, 101>>>>,
     filing_date |-> <<<<70, 105, 108, 105, 110, 103, 32, 68, 97, 116, 101>>>>,
     registration_number |-> <<<<82, 101, 103, 105, 115, 116, 114, 97, 116, 105, 111, 110, 32, 78, 117, 109, 98, 101, 114>>>>,
     first_hearing_date |-> <<<<70, 105, 114, 115, 116, 32, 72, 101, 97, 114, 105, 110, 103, 32, 68, 97, 116, 101>>>>,
     next_hearing_date |-> <<<<78, 101, 120, 116, 32, 72, 101, 97, 114, 105, 110, 103, 32, 68, 97, 116, 101>>>>,
     case_stage |-> <<<<67, 97, 115, 101, 32, 83, 116, 97, 103, 101>>>>,
     court_name |-> <<<<67, 111, 117, 114, 116, 32, 78, 117, 109, 98, 101, 114, 32, 97, 110, 100, 32, 74, 117, 100, 103, 101>>, <<67, 111, 117, 114, 116>>>>]

\* The text mentions the label, in any case.
Mentions(text, label) == Contains(Lower(text), Lower(label))

\* No text of the body mentions the label.
LabelAbsent(body, label) ==
    \A k \in 1..Len(body) : \A j \in 1..Len(body[k].texts) : ~Mentions(body[k].texts[j], label)

\* The keys every returned record holds.
RecordKeys ==
    LabelFields \cup {"listed", "listed_when", "case_history", "interim_orders", "pdf_url",
                      "serial_number", "court_name_clean", "judge_name_and_court_address"}

\* The body's first mention of the label is in cell j of the row k, and a cell follows it.
FirstMentionInRow(body, label, k, j) ==
    /\ body[k].row
    /\ j < Len(body[k].texts)
    /\ Mentions(body[k].texts[j], label)
    /\ \A i \in 1..(j - 1) : ~Mentions(body[k].texts[i], label)
    /\ LabelAbsent(SubSeq(body, 1, k - 1), label)

\* C21: field extraction never fails the parse: every call returns a record
\* with all its keys; a field none of whose labels occurs in the document is
\* null; and every field whose label stands in a row before another cell
\* holds that cell's text, whichever other labels are absent.
C21_AbsentLabelGivesNull ==
    /\ p_pc \in {"fields", "pdf", "rest", "done"}
    /\ p_pc = "done" =>
        /\ RecordKeys \subseteq DOMAIN p_out
        /\ \A f \in LabelFields :
            /\ (\A n \in 1..Len(FieldLabels[f]) : LabelAbsent(p_in.body, FieldLabels[f][n]))
                  => p_out[f] = PyNone
            /\ \A k \in 1..Len(p_in.body), j \in 1..3 :
                  FirstMentionInRow(p_in.body, FieldLabels[f][1], k, j)
                  => p_out[f] = Strip(p_in.body[k].texts[j + 1])

\* The parse has returned on a body holding only "case type" and a "Next
\* Hearing Date" label without a value: the case type is there, the fields
\* of the absent labels are null.
C21_Witness ==
    /\ p_pc = "done"
    /\ p_in.body = <<E_type, E_next>>
    /\ p_out.case_type = <<67, 105, 118, 105, 108>>
    /\ p_out.cnr = PyNone
    /\ p_out.court_name = PyNone
    /\ p_out.next_hearing_date = PyNone
    /\ p_out.listed_when = "none"

\* The record the same document gives when the PDF is fetched and written.
RecordWithPdf(doc) ==
    Finished([pdf_url |-> PdfHref(doc.anchors), pdf_path |-> PdfPath(PdfHref(doc.anchors))]
             @@ BasicFields(doc.body), doc)

\* C22: when the document has a PDF anchor and fetching or writing its
\* target fails, the parse still returns the full record, with pdf_path
\* null and every other key as when the fetch succeeds; the failure is not
\* raised to the caller.
C22_PdfFailureGivesNull ==
    /\ p_fetch # "none" => p_pc \in {"rest", "done"}
    /\ (p_pc = "done" /\ p_fetch \in {"get", "status", "write"}) =>
        /\ p_out.pdf_path = PyNone
        /\ p_out = [RecordWithPdf(p_in) EXCEPT !.pdf_path = PyNone]

\* The parse has returned after requests.get raised on the PDF of a
\* document with a CNR row: the CNR and the PDF address are there, the path
\* is null.
C22_Witness ==
    /\ p_pc = "done"
    /\ p_fetch = "get"
    /\ p_in.body = <<E_cnr>>
    /\ p_out.cnr = <<77, 72, 80, 85, 48, 49>>
    /\ p_out.pdf_url = <<104, 116, 116, 112, 58, 47, 47, 104, 47, 111, 47, 97, 46, 80, 68, 70>>
    /\ p_out.pdf_path = PyNone

\* Written PDFs are recorded under outputs/cnr with the last segment of the address.
PdfSavedUnderOutputs ==
    (p_pc = "done" /\ p_fetch = "ok") => p_out.pdf_path = <<111, 117, 116, 112, 117, 116, 115, 47, 99, 110, 114, 47, 97, 46, 80, 68, 70>>

\* The rows of the history table of the document, none without a table.
HistRows == IF p_in.history.found THEN p_in.history.rows ELSE <<>>

\* The rows that have at least 3 cells, by position.
LongRows == { i \in 1..Len(HistRows) : Len(HistRows[i]) >= 3 }

\* C27: case_history has exactly one entry per row of the history table
\* that has at least 3 cells, in row order, made of the row's first cells; a
\* row of exactly 3 cells gets purpose = "" and a row of fewer than 3 cells
\* gives no entry.
C27_HistoryEntries ==
    p_pc = "done" =>
        /\ Len(p_out.case_history) = Cardinality(LongRows)
        /\ \A i \in LongRows :
            LET n == Cardinality({ j \in LongRows : j <= i })
                e == p_out.case_history[n]
            IN  /\ e.judge = Strip(HistRows[i][1])
                /\ e.business_on_date = Strip(HistRows[i][2])
                /\ e.hearing_date = Strip(HistRows[i][3])
                /\ e.purpose = IF Len(HistRows[i]) = 3 THEN <<>> ELSE Strip(HistRows[i][4])

\* The parse has returned on a history table of a 2-cell row, a 3-cell row
\* and a 5-cell row: two entries, the first with an empty purpose.
C27_Witness ==
    /\ p_pc = "done"
    /\ p_in.history.found
    /\ Len(p_in.history.rows) = 3
    /\ Len(p_in.history.rows[1]) = 2
    /\ Len(p_in.history.rows[2]) = 3
    /\ Len(p_in.history.rows[3]) = 5
    /\ Len(p_out.case_history) = 2
    /\ p_out.case_history[1].purpose = <<>>
    /\ p_out.case_history[1].hearing_date = <<48, 49, 45, 48, 51, 45, 50, 48, 50, 53>>
    /\ p_out.case_history[2].purpose = <<69, 118, 105, 100, 101, 110, 99, 101>>

\* The order in which the form page is fetched.
FetchOrder(f) == CASE f = "landing" -> 1 [] f = "r2" -> 2 [] f = "r3" -> 3 [] OTHER -> 0

\* C23: when a fetch of a level's option list gives an empty list where an
\* earlier fetch gave a non-empty one, a re-fetch is attempted before the
\* operation fails and the earlier list is not used in place of the empty
\* one: the list held for a level still to be resolved was read by a fetch
\* made after every fetch that read it empty.
C23_EmptyListRefetched ==
    InCascade =>
        \A l \in Levels :
            anomaly[l] # "none" => FetchOrder(prov[l]) > FetchOrder(anomaly[l])

\* prepare_causelist_request is running: the app call has not returned the
\* template and the captcha paths yet.
InPrepare ==
    /\ fn = "app"
    /\ pc \in {"start", "res_state", "res_district", "post_state", "res_complex",
               "post_complex", "res_court", "captcha"}

\* C24: prepare_causelist_request never submits the cause list: no step of a
\* call sends a POST to the submit endpoint or writes a result, and no POST
\* has been sent when it returns, raises or fails.
C24_PrepareNeverSubmits ==
    /\ (fn = "app" /\ (InPrepare \/ pc \in {"failed", "raised"})) =>
            (posts = <<>> /\ files = {} /\ results = <<>>)
    /\ (fn = "app" /\ pc = "ready" /\ results = <<>>) => (posts = <<>> /\ files = {})

\* prepare_causelist_request has returned after the state POST and the complex
\* POST gave the lists and both captcha images were saved: nothing was submitted.
C24_Witness ==
    /\ fn = "app"
    /\ pc = "ready"
    /\ results = <<>>
    /\ usedProv["complex"] = "r2"
    /\ usedProv["court"] = "r3"
    /\ capPaths = [civ |-> 1, cri |-> 2]
    /\ posts = <<>>

\* What one iteration of download_entire_cause_list's loop, entered with
\* `attempt` = a and given the response resp, can leave behind: the saved
\* kind s2 and whether the loop is over.
DlIteration(a, resp, s2, over) ==
    LET class == DlClassify(resp)
        retry == s2 = "none" /\ over = ~(NextAttempt(a) < max_retries)
    IN  \/ class \in {"neterr", "banner"} /\ retry
        \/ class \in {"jsonpdf", "anchor"} /\ s2 = "pdf" /\ over
        \/ class = "fallback" /\ ((s2 = "html" /\ over) \/ retry)

\* C25 as stated: submit_causelist_attempt mirrors the retry loop of
\* download_entire_cause_list: each of its iterations, on the response it
\* got, leaves the saved kind and ends or goes on as the CLI loop's
\* iteration does on that response, so that both make the same number of
\* submission POSTs and end with the same kind of outcome.
C25_SubmitMirrorsDownload ==
    [][(fn = "app" /\ pc = "loop") =>
            DlIteration(attempt, last'.resp, saved', pc' = "return")]_vars

\* The steps of submit_causelist_attempt on responses without a blocking
\* banner are steps of the CLI loop.
SubmitMirrorsDownloadWithoutBanner ==
    [][(fn = "app" /\ pc = "loop" /\ ~last'.resp.banner) =>
            DlIteration(attempt, last'.resp, saved', pc' = "return")]_vars

\* The attempt just made failed with a network error or a blocking banner
\* and the loop slept before going on.
FailedAttempt == InCascade /\ last.posted /\ last.class \in {"neterr", "banner"}

\* The delay (tenths of a second) the loop of entry point f waits after its
\* first network error: the one base delay the claim speaks of.
BaseDelay(f) == IF f = "download" THEN DlNetDelay(1) ELSE SubDelay(1)

\* C26 as stated: after the k-th failed attempt the loop waits base_delay * k,
\* with the same base_delay for a network error and for a blocking banner.
C26_OneLinearDelay ==
    FailedAttempt => last.delay = BaseDelay(fn) * attempt

\* The delay after the k-th failed attempt is linear in k for each kind of
\* failure: 0.8 * k after a network error of download_entire_cause_list,
\* 0.6 * k after its banner and after a network error of submit_causelist_attempt.
DelayLinearPerKind ==
    FailedAttempt =>
        last.delay = attempt * (IF fn = "download" /\ last.class = "neterr" THEN 8 ELSE 6)

\* The party text holds the whole-word token "versus" in some casing.
HasVersus(s) == VersusPlaces(s, 1) # {}

\* The split fell back to the whole text: party_for is the entire party
\* text and party_against is empty.
WholeTextAsPartyFor ==
    p_out = [party_for |-> Strip(p_in), party_against |-> <<>>]

\* C28 as stated: the party text is split on the whole-word token "versus",
\* and party_for is the entire text with party_against empty only when the
\* text holds no such token.
C28_PartySplitOnVersus ==
    (p_pc = "done") => (WholeTextAsPartyFor <=> ~HasVersus(p_in))

\* With exactly one token the parts before and after it are the two parties;
\* with none, or with more than one, the whole text is party_for.
PartySplitOnSingleVersus ==
    (p_pc = "done") =>
        LET at == VersusPlaces(p_in, 1)
        IN  IF Cardinality(at) = 1
            THEN LET i == Min(at)
                 IN  p_out = [party_for |-> Strip(SubSeq(p_in, 1, i - 1)),
                              party_against |-> Strip(StrFrom(p_in, i + 6))]
            ELSE WholeTextAsPartyFor

\* "A Versus B" gives the parties A and B.
PartySplitExample ==
    (p_pc = "done" /\ p_in = <<65, 32, 86, 101, 114, 115, 117, 115, 32, 66>>) =>
        p_out = [party_for |-> <<65>>, party_against |-> <<66>>]

\* _download_captcha_with_retries is running or has ended.
InCaptcha == fn = "captcha" /\ pc # "start"

\* C29: _download_captcha_with_retries makes at most `tries` GETs, returns
\* at the first successful one (every GET before it failed), raises the
\* exception of the last failed GET when all `tries` (one or more) failed,
\* and sleeps 0.8 * k after the k-th failure.
C29_CaptchaRetries ==
    InCaptcha =>
        /\ attempt <= max_retries
        /\ last.got => (pc = "done" /\ last.last_exc = attempt - 1)
        /\ pc = "done" => last.got
        /\ (pc = "raised" /\ max_retries >= 1) =>
                (attempt = max_retries /\ ~last.got /\ last.last_exc = max_retries)
        /\ (attempt >= 1 /\ ~last.got) =>
                (last.last_exc = attempt /\ last.delay = 8 * attempt)

\* The second GET of two failed (after a sleep of 1.6 s) and its exception
\* is raised.
C29_Witness ==
    /\ fn = "captcha"
    /\ pc = "raised"
    /\ max_retries = 2
    /\ attempt = 2
    /\ last.last_exc = 2
    /\ last.delay = 16

\* The first GET failed and the second succeeded: the path is returned.
CaptchaSecondTrySucceeds ==
    /\ fn = "captcha"
    /\ pc = "done"
    /\ attempt = 2
    /\ last.got
    /\ last.last_exc = 1

\* The Selenium download was called without a court complex or a court name.
SelectorOmitted ==
    fn = "selenium" /\ (inp["complex"] = PyNone \/ inp["court"] = PyNone)

\* C30 as stated: with court_complex or court_name omitted,
\* download_entire_cause_list_selenium passes the state and district
\* selection and ends with the index file or with a resolution error that
\* names a level (or with a wait that timed out), never with an unhandled
\* error caused by the missing value.
C30_OptionalSelectorsHandled ==
    (SelectorOmitted /\ Ended) =>
        \/ pc = "done"
        \/ pc = "failed" /\ err.level \in Levels
        \/ pc = "raised"

\* With both selectors given the call never ends with the AttributeError.
SeleniumWithSelectorsNeverCrashes ==
    (fn = "selenium" /\ ~SelectorOmitted) => pc # "crashed"

\* With the court complex omitted and a complex select without options the
\* call ends with the SystemExit naming the complex.
OmittedComplexNamedInExit ==
    /\ fn = "selenium"
    /\ inp["complex"] = PyNone
    /\ pc = "failed"
    /\ err.level = "complex"

(***************************************************************************)
(* Properties of the Streamlit flow and of the saved results               *)
(* (checked under Spec)                                                    *)
(***************************************************************************)

\* The submission POSTs of the Streamlit flow made with a captcha text that
\* the operator read from a fetched image.
AppPostsRead == { i \in 1..Len(posts) : fn = "app" /\ posts[i].read # 0 }

\* C31 as stated: in the Streamlit flow the captcha text of every submission
\* is read from the captcha image most recently fetched on the session: no
\* other fetch lies between the image shown for the discriminator and the
\* submission that uses it.
C31_CaptchaMostRecentlyFetched ==
    \A i \in AppPostsRead : posts[i].read = posts[i].cap

\* The criminal submission, whose image prepare_causelist_request fetches
\* last, does use the image most recently fetched.
CriminalCaptchaMostRecent ==
    \A i \in AppPostsRead : posts[i].cicri = "cri" => posts[i].read = posts[i].cap

\* C32 as stated: whenever a result is recorded as saved with a .pdf path
\* (the `saved` of an index entry, or the value submit_causelist_attempt
\* returned), the PDF download succeeded and the file was written.
C32_SavedPdfWasWritten ==
    \A i \in 1..Len(results) :
        results[i].saved = "pdf" => <<results[i].cicri, "pdf">> \in files

\* A result recorded as saved with an .html path was written.
SavedHtmlWasWritten ==
    \A i \in 1..Len(results) :
        results[i].saved = "html" => <<results[i].cicri, "html">> \in files

(***************************************************************************)
(* Properties of the cause-list parser as a whole                          *)
(* (checked under SpecCauseList)                                           *)
(***************************************************************************)

\* The cases of the sections, in the order of the output.
RECURSIVE AllCases(_)
AllCases(sections) ==
    IF sections = <<>> THEN <<>>
    ELSE sections[1].cases \o AllCases(Tail(sections))

\* C33 as stated: the parser loses no case: the cases of the output, section
\* after section, are the cases of all case rows of the document in document
\* order, those before the first section title included.
C33_NoCaseLost ==
    (p_pc = "done") => AllCases(p_out) = CasesBetween(p_in, 1, Len(p_in))

\* The cases of the output are those of the case rows after the first
\* section title, in document order; the case rows before it are left out.
CasesAfterFirstTitleKept ==
    (p_pc = "done") =>
        AllCases(p_out) = CasesBetween(p_in, NextTitle(p_in, 1) + 1, Len(p_in))

(***************************************************************************)
(* Properties of the index of download_entire_cause_list                   *)
(* (checked under Spec)                                                    *)
(***************************************************************************)

\* download_entire_cause_list has resolved the four levels and is in, or
\* past, the loop over the discriminators.
DlPastCascade == fn = "download" /\ pc \in {"captcha", "loop", "record", "done"}

Displayed == { r_out.cands[i] : i \in 1..Len(r_out.cands) }

\* C35 as stated: when the substring step prompted the operator, the option
\* returned is one of the displayed candidates, whatever the reply was.
C35_PromptReturnsCandidate ==
    (r_pc = "done" /\ r_out.prompted) => r_out.opt \in Displayed

\* On a number of the list, on text that is no number and on an empty reply
\* the option returned is a displayed candidate.
PromptReturnsCandidateInRange ==
    (r_pc = "done" /\ r_out.prompted /\ r_out.how \in {"picked", "default"}) =>
        r_out.opt \in Displayed

\* A number out of range leaves the prompt branch for the fuzzy step, which
\* returns an option of the whole list or none.
OutOfRangeFallsToFuzzy ==
    (r_pc = "done" /\ r_out.prompted /\ r_out.how \notin {"picked", "default"}) =>
        r_out.opt = FuzzyStep(r_opts, Normalised(r_input))

(***************************************************************************)
(* Properties of the non-interactive download (checked under Spec)         *)
(***************************************************************************)

\* download_entire_cause_list was called with interactive=False.
NonInteractive == fn = "download" /\ ~interactive

\* C36 as stated: with interactive=False the call never asks for human
\* input: the resolver issues no prompt at any level of the cascade, no
\* captcha text is asked for, and the captcha field of every payload is "".
C36_NonInteractiveNeverPrompts ==
    NonInteractive =>
        /\ prompts = 0
        /\ textCount = 0
        /\ \A i \in 1..Len(posts) : posts[i].text = 0

\* With interactive=False no captcha is fetched or asked for and every
\* payload posted carries the empty captcha text; the prompts of the
\* resolver are apart.
NonInteractiveCaptchaEmpty ==
    NonInteractive =>
        /\ textCount = 0
        /\ capCount = 0
        /\ \A i \in 1..Len(posts) : posts[i].text = 0 /\ posts[i].read = 0

(***************************************************************************)
(* Properties of the CNR lookup (checked under Spec)                       *)
(***************************************************************************)

\* get_case_listing has been called and has taken its first step.
CnrCalled == fn = "cnr" /\ pc # "start"

\* C37: in the CNR lookup the search POST is sent exactly once; when it
\* fails the error value "network" is returned, no response is parsed and no
\* result file is written; get_case_listing without a CNR returns the
\* not_implemented error with no request made and nothing asked.
C37_CnrLookup ==
    CnrCalled =>
        /\ Len(posts) <= 1
        /\ (posts # <<>>) <=> (pc = "done" /\ Truthy(last.cnr))
        /\ (pc = "done" /\ Truthy(last.cnr) /\ ~last.net) =>
                /\ last.returned = "network"
                /\ ~last.parsed
                /\ files = {}
        /\ (pc = "done" /\ Truthy(last.cnr) /\ last.net) =>
                /\ last.returned = "parsed"
                /\ files = {<<"cnr", "json">>}
        /\ ~Truthy(last.cnr) =>
                /\ pc = "done"
                /\ last.returned = "not_implemented"
                /\ posts = <<>>
                /\ capCount = 0
                /\ textCount = 0
                /\ files = {}

\* The search POST of a lookup failed after the captcha was fetched and
\* typed: the network error is returned and nothing was written.
C37_Witness ==
    /\ fn = "cnr"
    /\ pc = "done"
    /\ last.cnr = S_ab
    /\ ~last.net
    /\ last.returned = "network"
    /\ Len(posts) = 1
    /\ posts[1].read = 1
    /\ files = {}

\* get_case_listing was called without a CNR and returned not_implemented.
CnrNotImplemented ==
    /\ fn = "cnr"
    /\ pc = "done"
    /\ last.cnr = PyNone
    /\ last.returned = "not_implemented"
    /\ posts = <<>>

(***************************************************************************)
(* Properties of the browser driver (checked under Spec)                   *)
(***************************************************************************)

\* A call of download_entire_cause_list_selenium or selenium_prepare_causelist.
SeleniumCall == fn \in {"selenium", "selprep"}

\* C38: every Selenium call that started a driver has quit it when the call
\* ends, whichever way it ends: return, SystemExit, timeout or any other
\* exception; until then the driver stays open, and only a call whose driver
\* never started ends without one.
C38_DriverAlwaysQuit ==
    SeleniumCall =>
        /\ Ended => driver \in {"quit", "none"}
        /\ (Ended /\ driver = "none") => (pc = "raised" /\ steps = 1)
        /\ (~Ended /\ pc # "start") => driver = "open"
        /\ driver = "quit" => Ended

\* The Selenium download ended with the AttributeError of a missing
\* selector, an exit the code does not handle, and the driver was quit.
C38_Witness ==
    /\ fn = "selenium"
    /\ pc = "crashed"
    /\ driver = "quit"

\* The Selenium preparation timed out or raised after its driver started,
\* and the driver was quit.
PrepareDriverQuitOnRaise ==
    /\ fn = "selprep"
    /\ pc = "raised"
    /\ steps > 1
    /\ driver = "quit"

==============================================================================
